---- MODULE Spec2Model ----
(***************************************************************************)
(* The ExternalMediaPlayer capability agent (EXTERNALMEDIAPLAYER_1_1       *)
(* build): directive dispatch, the focus arbitration state machine and the *)
(* executor queue that serialises the deferred work.                       *)
(*                                                                         *)
(* Every call the agent makes on a collaborator during one operation is    *)
(* recorded, in program order, in step.calls; step names the operation     *)
(* that produced the current state, its arguments and the arbitration      *)
(* state it started from.                                                  *)
(***************************************************************************)
EXTENDS Integers, Sequences, FiniteSets, TLC

VARIABLES
    m_adapters,                 \* keys of the adapter registry (every stored adapter is non-null)
    m_adapterHandlers,          \* the registered adapter handlers
    m_focus,                    \* the recorded focus of the content channel
    m_focusAcquireInProgress,   \* an acquireChannel call awaits its focus callback
    m_haltInitiator,
    m_currentActivity,
    m_playerInFocus,            \* "" when empty
    executorQueue,              \* m_executor: tasks submitted and not yet run, oldest first
    focusThread,                \* the focus manager's thread inside onFocusChanged: "idle" or the focus it waits for
    acquireCalls,               \* acquireChannel calls since the last processed focus callback
    handled,                    \* directives handed to handleDirective so far
    channel,                    \* the release of the channel: "idle", "releaseRequested", "releaseGranted", "released"
    m_observers,                \* the registered observers
    m_observersMutex,           \* the thread that holds m_observersMutex, "" when free
    observerThreads,            \* per thread, its stack of calls into the observer registry, innermost last
    instance,                   \* the agent: "none" before create, "live", "shutdown" after doShutdown
    lastGrant,                  \* the focus grant processed before the last operation, with only steps of onFocusChanged since
    step                        \* the operation that produced this state

vars == <<m_adapters, m_adapterHandlers, m_focus, m_focusAcquireInProgress, m_haltInitiator,
          m_currentActivity, m_playerInFocus, executorQueue, focusThread, acquireCalls,
          handled, channel, m_observers, m_observersMutex, observerThreads, instance, lastGrant,
          step>>

\* the observer registry and the life cycle of the agent
outside == <<m_observers, m_observersMutex, observerThreads, instance, lastGrant>>

arbitration == <<m_focus, m_focusAcquireInProgress, m_haltInitiator, m_currentActivity, m_playerInFocus>>

----------------------------------------------------------------------------
(* Bounds of the model *)

\* tasks the executor queue may hold at once
MaxQueue == 1

\* adapter handlers that exist
NumHandlers == 1

\* directives handed to handleDirective in one behaviour
MaxDirectives == 1

----------------------------------------------------------------------------
(* Values *)

FocusStates == {"NONE", "BACKGROUND", "FOREGROUND"}

PlayerActivities == {"IDLE", "PLAYING", "PAUSED", "STOPPED", "BUFFER_UNDERRUN", "FINISHED"}

HaltInitiators == {"NONE", "EXTERNAL_PAUSE", "FOCUS_CHANGE_PAUSE", "FOCUS_CHANGE_STOP"}

\* player ids: p1 is a key of the adapter creation map, p2 never is
PlayerIds == {"p1", "p2"}

\* the registries createAdapters can build: none of the adapters, or the adapter of p1
Registries == {{}, {"p1"}}

HandlerNames == <<"h1", "h2", "h3", "h4">>

Handlers == {HandlerNames[i] : i \in 1..NumHandlers}

NoHandler == ""

MAX_PAST_OFFSET == -86400000

MAX_FUTURE_OFFSET == 86400000

EXTERNALMEDIAPLAYER_NAMESPACE == "ExternalMediaPlayer"

PLAYBACKCONTROLLER_NAMESPACE == "Alexa.PlaybackController"

PLAYLISTCONTROLLER_NAMESPACE == "Alexa.PlaylistController"

SEEKCONTROLLER_NAMESPACE == "Alexa.SeekController"

FAVORITESCONTROLLER_NAMESPACE == "Alexa.FavoritesController"

\* (namespace, name) -> (request type, handler)
m_directiveToHandlerMap ==
    [k \in {<<EXTERNALMEDIAPLAYER_NAMESPACE, "AuthorizeDiscoveredPlayers">>,
            <<EXTERNALMEDIAPLAYER_NAMESPACE, "Login">>,
            <<EXTERNALMEDIAPLAYER_NAMESPACE, "Logout">>,
            <<EXTERNALMEDIAPLAYER_NAMESPACE, "Play">>,
            <<PLAYBACKCONTROLLER_NAMESPACE, "Pause">>,
            <<PLAYBACKCONTROLLER_NAMESPACE, "Stop">>,
            <<PLAYBACKCONTROLLER_NAMESPACE, "Play">>,
            <<PLAYBACKCONTROLLER_NAMESPACE, "Next">>,
            <<PLAYBACKCONTROLLER_NAMESPACE, "Previous">>,
            <<PLAYBACKCONTROLLER_NAMESPACE, "StartOver">>,
            <<PLAYBACKCONTROLLER_NAMESPACE, "FastForward">>,
            <<PLAYBACKCONTROLLER_NAMESPACE, "Rewind">>,
            <<PLAYLISTCONTROLLER_NAMESPACE, "EnableRepeatOne">>,
            <<PLAYLISTCONTROLLER_NAMESPACE, "EnableRepeat">>,
            <<PLAYLISTCONTROLLER_NAMESPACE, "DisableRepeat">>,
            <<PLAYLISTCONTROLLER_NAMESPACE, "EnableShuffle">>,
            <<PLAYLISTCONTROLLER_NAMESPACE, "DisableShuffle">>,
            <<FAVORITESCONTROLLER_NAMESPACE, "Favorite">>,
            <<FAVORITESCONTROLLER_NAMESPACE, "Unfavorite">>,
            <<SEEKCONTROLLER_NAMESPACE, "SetSeekPosition">>,
            <<SEEKCONTROLLER_NAMESPACE, "AdjustSeekPosition">>} |->
        CASE k = <<EXTERNALMEDIAPLAYER_NAMESPACE, "AuthorizeDiscoveredPlayers">> -> <<"NONE", "handleAuthorizeDiscoveredPlayers">>
          [] k = <<EXTERNALMEDIAPLAYER_NAMESPACE, "Login">> -> <<"LOGIN", "handleLogin">>
          [] k = <<EXTERNALMEDIAPLAYER_NAMESPACE, "Logout">> -> <<"LOGOUT", "handleLogout">>
          [] k = <<EXTERNALMEDIAPLAYER_NAMESPACE, "Play">> -> <<"PLAY", "handlePlay">>
          [] k = <<PLAYBACKCONTROLLER_NAMESPACE, "Pause">> -> <<"PAUSE", "handlePlayControl">>
          [] k = <<PLAYBACKCONTROLLER_NAMESPACE, "Stop">> -> <<"STOP", "handlePlayControl">>
          [] k = <<PLAYBACKCONTROLLER_NAMESPACE, "Play">> -> <<"RESUME", "handlePlayControl">>
          [] k = <<PLAYBACKCONTROLLER_NAMESPACE, "Next">> -> <<"NEXT", "handlePlayControl">>
          [] k = <<PLAYBACKCONTROLLER_NAMESPACE, "Previous">> -> <<"PREVIOUS", "handlePlayControl">>
          [] k = <<PLAYBACKCONTROLLER_NAMESPACE, "StartOver">> -> <<"START_OVER", "handlePlayControl">>
          [] k = <<PLAYBACKCONTROLLER_NAMESPACE, "FastForward">> -> <<"FAST_FORWARD", "handlePlayControl">>
          [] k = <<PLAYBACKCONTROLLER_NAMESPACE, "Rewind">> -> <<"REWIND", "handlePlayControl">>
          [] k = <<PLAYLISTCONTROLLER_NAMESPACE, "EnableRepeatOne">> -> <<"ENABLE_REPEAT_ONE", "handlePlayControl">>
          [] k = <<PLAYLISTCONTROLLER_NAMESPACE, "EnableRepeat">> -> <<"ENABLE_REPEAT", "handlePlayControl">>
          [] k = <<PLAYLISTCONTROLLER_NAMESPACE, "DisableRepeat">> -> <<"DISABLE_REPEAT", "handlePlayControl">>
          [] k = <<PLAYLISTCONTROLLER_NAMESPACE, "EnableShuffle">> -> <<"ENABLE_SHUFFLE", "handlePlayControl">>
          [] k = <<PLAYLISTCONTROLLER_NAMESPACE, "DisableShuffle">> -> <<"DISABLE_SHUFFLE", "handlePlayControl">>
          [] k = <<FAVORITESCONTROLLER_NAMESPACE, "Favorite">> -> <<"FAVORITE", "handlePlayControl">>
          [] k = <<FAVORITESCONTROLLER_NAMESPACE, "Unfavorite">> -> <<"UNFAVORITE", "handlePlayControl">>
          [] k = <<SEEKCONTROLLER_NAMESPACE, "SetSeekPosition">> -> <<"SEEK", "handleSeek">>
          [] k = <<SEEKCONTROLLER_NAMESPACE, "AdjustSeekPosition">> -> <<"ADJUST_SEEK", "handleAdjustSeek">>]

\* PlaybackButton -> request type
g_buttonToRequestType ==
    [b \in {"PLAY", "PAUSE", "NEXT", "PREVIOUS"} |->
        CASE b = "PLAY" -> "RESUME"
          [] b = "PAUSE" -> "PAUSE"
          [] b = "NEXT" -> "NEXT"
          [] b = "PREVIOUS" -> "PREVIOUS"]

----------------------------------------------------------------------------
(* Records *)

\* one call on a collaborator
Call(target, handler, op, player, request, msg, delta) ==
    [target |-> target, handler |-> handler, op |-> op, player |-> player,
     request |-> request, msg |-> msg, delta |-> delta]

\* a directive: its key, its payload as the JSON parser and retrieveValue see it,
\* and whether its DirectiveInfo carries a result (completion sink)
Directive(key, parses, playerId, fields, delta, hasResult) ==
    [key |-> key, parses |-> parses, playerId |-> playerId, fields |-> fields,
     delta |-> delta, hasResult |-> hasResult]

NoDirective == Directive(<<"", "">>, FALSE, "", {}, 0, FALSE)

\* a DirectiveInfo: the directive, what its result has been told so far and the
\* exception messages sent for it
DirectiveInfo(directive, signals, exceptions) ==
    [directive |-> directive, signals |-> signals, exceptions |-> exceptions]

NoInfo == DirectiveInfo(NoDirective, <<>>, <<>>)

\* a task of the executor
Task(kind, newFocus, op, request, info, handler) ==
    [kind |-> kind, newFocus |-> newFocus, op |-> op, request |-> request,
     info |-> info, handler |-> handler]

\* the arbitration state as an operation finds it
Snapshot ==
    [focus |-> m_focus, acquireInProgress |-> m_focusAcquireInProgress, halt |-> m_haltInitiator,
     activity |-> m_currentActivity, player |-> m_playerInFocus]

\* the record of one operation: its name, its arguments, the arbitration state it found
\* (pre), whether it submitted a task, its calls in program order, and (sync) what it did
\* to m_currentActivity, its mutex and its condition variable, in program order
Step(op, newFocus, player, acquire, request, info, submitted, calls) ==
    [op |-> op, newFocus |-> newFocus, player |-> player, acquire |-> acquire,
     request |-> request, info |-> info, submitted |-> submitted, calls |-> calls,
     pre |-> Snapshot, sync |-> <<>>]

\* what is kept of a processed focus grant for the operation after it
NoGrant == [newFocus |-> "", pre |-> [focus |-> "", acquireInProgress |-> FALSE, halt |-> "",
                                      activity |-> "", player |-> ""], calls |-> <<>>]

grantOf(s) ==
    IF s.op = "executeOnFocusChanged"
    THEN [newFocus |-> s.newFocus, pre |-> s.pre, calls |-> s.calls]
    ELSE lastGrant

\* setCurrentActivity: the write under the lock_guard, then notify_all
setCurrentActivitySync ==
    <<"lock", "write", "unlock", "notify_all">>

\* m_currentActivity = IDLE in setPlayerInFocus: a bare assignment
assignActivitySync ==
    <<"write">>

\* the orders in which a range-for may visit an unordered set
RECURSIVE Orders(_)
Orders(S) ==
    IF S = {} THEN {<<>>}
    ELSE UNION {{<<x>> \o o : o \in Orders(S \ {x})} : x \in S}

----------------------------------------------------------------------------
(* The executor *)

\* m_executor.submit: the task joins the end of the queue, unless the executor
\* was shut down, which accepts no submission
submit(queue, tasks) ==
    IF instance = "shutdown" THEN queue ELSE queue \o tasks

CanSubmit ==
    Len(executorQueue) < MaxQueue

----------------------------------------------------------------------------
(* Focus arbitration *)

\* playControlForPlayer(m_playerInFocus, request) on every adapter handler, in the order ord
playControlForPlayerAll(ord, request) ==
    [i \in 1..Len(ord) |-> Call("handler", ord[i], "playControlForPlayer", m_playerInFocus, request, "", 0)]

\* the result of a branch of executeOnFocusChanged that changes nothing
unchanged ==
    [activity |-> m_currentActivity, halt |-> m_haltInitiator, calls |-> <<>>, sync |-> <<>>]

\* case FocusState::FOREGROUND
onForeground_IgnoresExternalPause(ord) ==
    IF m_currentActivity = "PAUSED"
    THEN [activity |-> "PLAYING", halt |-> m_haltInitiator, sync |-> setCurrentActivitySync,
          calls |-> IF m_haltInitiator # "NONE" THEN playControlForPlayerAll(ord, "RESUME") ELSE <<>>]
    ELSE unchanged

onForeground_AlwaysResumes(ord) ==
    IF m_haltInitiator = "EXTERNAL_PAUSE"
    THEN unchanged
    ELSE IF m_currentActivity = "PAUSED"
    THEN [activity |-> "PLAYING", halt |-> m_haltInitiator, sync |-> setCurrentActivitySync,
          calls |-> playControlForPlayerAll(ord, "RESUME")]
    ELSE unchanged

onForeground_ClearsInitiator(ord) ==
    IF m_haltInitiator = "EXTERNAL_PAUSE"
    THEN unchanged
    ELSE IF m_currentActivity = "PAUSED"
    THEN [activity |-> "PLAYING", halt |-> "NONE", sync |-> setCurrentActivitySync,
          calls |-> IF m_haltInitiator # "NONE" THEN playControlForPlayerAll(ord, "RESUME") ELSE <<>>]
    ELSE unchanged

onForeground(ord) ==
    IF m_haltInitiator = "EXTERNAL_PAUSE"
    THEN unchanged
    ELSE IF m_currentActivity = "PAUSED"
    THEN [activity |-> "PLAYING", halt |-> m_haltInitiator, sync |-> setCurrentActivitySync,
          calls |-> IF m_haltInitiator # "NONE" THEN playControlForPlayerAll(ord, "RESUME") ELSE <<>>]
    ELSE unchanged

\* case FocusState::BACKGROUND: every activity falls through to the pause
onBackground_NoPauseControl(ord) ==
    [activity |-> "PAUSED", sync |-> setCurrentActivitySync,
     halt |-> IF m_haltInitiator # "EXTERNAL_PAUSE" THEN "FOCUS_CHANGE_PAUSE" ELSE m_haltInitiator,
     calls |-> <<>>]

onBackground_OnlyWhenPlaying(ord) ==
    IF m_currentActivity \in {"PLAYING", "BUFFER_UNDERRUN"}
    THEN [activity |-> "PAUSED", sync |-> setCurrentActivitySync,
          halt |-> IF m_haltInitiator # "EXTERNAL_PAUSE" THEN "FOCUS_CHANGE_PAUSE" ELSE m_haltInitiator,
          calls |-> playControlForPlayerAll(ord, "PAUSE")]
    ELSE unchanged

onBackground_ClearsExternalPause(ord) ==
    [activity |-> "PAUSED", sync |-> setCurrentActivitySync, halt |-> "FOCUS_CHANGE_PAUSE",
     calls |-> playControlForPlayerAll(ord, "PAUSE")]

onBackground(ord) ==
    [activity |-> "PAUSED", sync |-> setCurrentActivitySync,
     halt |-> IF m_haltInitiator # "EXTERNAL_PAUSE" THEN "FOCUS_CHANGE_PAUSE" ELSE m_haltInitiator,
     calls |-> playControlForPlayerAll(ord, "PAUSE")]

\* case FocusState::NONE
onNone_PausedStays(ord) ==
    IF m_currentActivity \in {"PLAYING", "BUFFER_UNDERRUN"}
    THEN [activity |-> "STOPPED", halt |-> "FOCUS_CHANGE_STOP", sync |-> setCurrentActivitySync,
          calls |-> playControlForPlayerAll(ord, "STOP")]
    ELSE unchanged

onNone_AlwaysStops(ord) ==
    [activity |-> "STOPPED", halt |-> "FOCUS_CHANGE_STOP", sync |-> setCurrentActivitySync,
     calls |-> playControlForPlayerAll(ord, "STOP")]

onNone(ord) ==
    IF m_currentActivity \in {"PLAYING", "PAUSED", "BUFFER_UNDERRUN"}
    THEN [activity |-> "STOPPED", halt |-> "FOCUS_CHANGE_STOP", sync |-> setCurrentActivitySync,
          calls |-> playControlForPlayerAll(ord, "STOP")]
    ELSE unchanged

\* the switch of executeOnFocusChanged for a player in focus that has no registry adapter:
\* the new activity, the new halt initiator and the controls issued
executeOnFocusChangedSwitch(newFocus, ord) ==
    CASE newFocus = "FOREGROUND" -> onForeground(ord)
      [] newFocus = "BACKGROUND" -> onBackground(ord)
      [] newFocus = "NONE" -> onNone(ord)

\* executeOnFocusChanged with the switch entered whatever the player in focus
executeOnFocusChanged_AnyPlayer(newFocus, ord) ==
    IF m_focus = newFocus
    THEN [focus |-> m_focus, activity |-> m_currentActivity, halt |-> m_haltInitiator, calls |-> <<>>,
          sync |-> <<>>]
    ELSE [focus |-> newFocus] @@ executeOnFocusChangedSwitch(newFocus, ord)

\* executeOnFocusChanged without the return for a grant of the recorded focus
executeOnFocusChanged_NoEarlyReturn(newFocus, ord) ==
    IF m_playerInFocus # "" /\ m_playerInFocus \notin m_adapters
    THEN [focus |-> newFocus] @@ executeOnFocusChangedSwitch(newFocus, ord)
    ELSE [focus |-> newFocus, activity |-> m_currentActivity, halt |-> m_haltInitiator, calls |-> <<>>,
          sync |-> <<>>]

\* executeOnFocusChanged(newFocus): what it leaves in focus, activity, halt initiator, and its calls
executeOnFocusChanged(newFocus, ord) ==
    IF m_focus = newFocus
    THEN [focus |-> m_focus, activity |-> m_currentActivity, halt |-> m_haltInitiator, calls |-> <<>>,
          sync |-> <<>>]
    ELSE IF m_playerInFocus # "" /\ m_playerInFocus \notin m_adapters
    THEN [focus |-> newFocus] @@ executeOnFocusChangedSwitch(newFocus, ord)
    ELSE [focus |-> newFocus, activity |-> m_currentActivity, halt |-> m_haltInitiator, calls |-> <<>>,
          sync |-> <<>>]

\* the executor runs a queued executeOnFocusChanged task
RunFocusChanged ==
    /\ executorQueue # <<>>
    /\ Head(executorQueue).kind = "executeOnFocusChanged"
    /\ \E ord \in Orders(m_adapterHandlers) :
         LET newFocus == Head(executorQueue).newFocus
             r == executeOnFocusChanged(newFocus, ord)
         IN /\ m_focus' = r.focus
            /\ m_focusAcquireInProgress' = FALSE
            /\ m_currentActivity' = r.activity
            /\ m_haltInitiator' = r.halt
            /\ step' = [Step("executeOnFocusChanged", newFocus, "", FALSE, "", NoInfo, FALSE, r.calls)
                            EXCEPT !.sync = r.sync]
    /\ executorQueue' = Tail(executorQueue)
    /\ acquireCalls' = 0
    /\ UNCHANGED <<m_adapters, m_adapterHandlers, m_playerInFocus, focusThread, handled>>

\* the wait predicate of onFocusChanged(newFocus)
predicate_BackgroundAsNone(newFocus) ==
    CASE newFocus \in {"BACKGROUND", "NONE"} -> m_currentActivity \in {"IDLE", "STOPPED", "FINISHED"}
      [] OTHER -> FALSE

predicate_NoneAsBackground(newFocus) ==
    CASE newFocus \in {"BACKGROUND", "NONE"} -> m_currentActivity \in {"IDLE", "PAUSED", "STOPPED", "FINISHED"}
      [] OTHER -> FALSE

predicate(newFocus) ==
    CASE newFocus = "BACKGROUND" -> m_currentActivity \in {"IDLE", "PAUSED", "STOPPED", "FINISHED"}
      [] newFocus = "NONE" -> m_currentActivity \in {"IDLE", "STOPPED", "FINISHED"}
      [] OTHER -> FALSE

\* onFocusChanged(newFocus) with a wait for FOREGROUND as well
onFocusChanged_ForegroundWaits(newFocus) ==
    /\ focusThread = "idle"
    /\ CanSubmit
    /\ executorQueue' = submit(executorQueue, <<Task("executeOnFocusChanged", newFocus, "", "", NoInfo, NoHandler)>>)
    /\ focusThread' = newFocus
    /\ step' = Step("onFocusChanged", newFocus, "", FALSE, "", NoInfo, TRUE, <<>>)
    /\ UNCHANGED <<m_adapters, m_adapterHandlers, arbitration, acquireCalls, handled>>

\* onFocusChanged(newFocus), up to the wait: the task is submitted; FOREGROUND returns at once
onFocusChanged(newFocus) ==
    /\ focusThread = "idle"
    /\ CanSubmit
    /\ executorQueue' = submit(executorQueue, <<Task("executeOnFocusChanged", newFocus, "", "", NoInfo, NoHandler)>>)
    /\ focusThread' = IF newFocus = "FOREGROUND" THEN "idle" ELSE newFocus
    /\ step' = Step("onFocusChanged", newFocus, "", FALSE, "", NoInfo, TRUE, <<>>)
    /\ UNCHANGED <<m_adapters, m_adapterHandlers, arbitration, acquireCalls, handled>>

\* wait_for returns true: the predicate holds when the waiting thread looks
onFocusChangedReturn ==
    /\ focusThread # "idle"
    /\ predicate(focusThread)
    /\ focusThread' = "idle"
    /\ step' = Step("onFocusChangedReturn", focusThread, "", FALSE, "", NoInfo, FALSE, <<>>)
    /\ UNCHANGED <<m_adapters, m_adapterHandlers, arbitration, executorQueue, acquireCalls, handled>>

\* a timeout that takes the queued transition back
onFocusChangedTimedOut_Cancels ==
    /\ focusThread # "idle"
    /\ ~predicate(focusThread)
    /\ focusThread' = "idle"
    /\ executorQueue' = <<>>
    /\ step' = Step("onFocusChangedTimedOut", focusThread, "", FALSE, "", NoInfo, FALSE, <<>>)
    /\ UNCHANGED <<m_adapters, m_adapterHandlers, arbitration, acquireCalls, handled>>

\* a wait without a timeout
onFocusChangedTimedOut_Never ==
    /\ focusThread # "idle"
    /\ ~predicate(focusThread)
    /\ FALSE
    /\ focusThread' = "idle"
    /\ step' = Step("onFocusChangedTimedOut", focusThread, "", FALSE, "", NoInfo, FALSE, <<>>)
    /\ UNCHANGED <<m_adapters, m_adapterHandlers, arbitration, executorQueue, acquireCalls, handled>>

\* wait_for returns false: TIMEOUT has passed and the predicate does not hold
onFocusChangedTimedOut ==
    /\ focusThread # "idle"
    /\ ~predicate(focusThread)
    /\ focusThread' = "idle"
    /\ step' = Step("onFocusChangedTimedOut", focusThread, "", FALSE, "", NoInfo, FALSE, <<>>)
    /\ UNCHANGED <<m_adapters, m_adapterHandlers, arbitration, executorQueue, acquireCalls, handled>>

\* setCurrentActivity(currentActivity), called by the adapter handlers
setCurrentActivity(currentActivity) ==
    /\ m_currentActivity' = currentActivity
    /\ step' = [Step("setCurrentActivity", "", "", FALSE, "", NoInfo, FALSE, <<>>)
                    EXCEPT !.sync = setCurrentActivitySync]
    /\ UNCHANGED <<m_adapters, m_adapterHandlers, m_focus, m_focusAcquireInProgress, m_haltInitiator,
                   m_playerInFocus, executorQueue, focusThread, acquireCalls, handled>>

\* does setPlayerInFocus(playerInFocus, true) acquire the channel?
acquires_IgnoresInProgress ==
    m_focus = "NONE"

acquires_Always ==
    TRUE

acquires ==
    m_focus = "NONE" /\ m_focusAcquireInProgress # TRUE

\* does setPlayerInFocus(playerInFocus, false) release the channel?
releases_AnyPlayer(playerInFocus) ==
    m_focus # "NONE"

releases(playerInFocus) ==
    playerInFocus = m_playerInFocus /\ m_focus # "NONE"

\* setPlayerInFocus(playerInFocus, focusAcquire)
setPlayerInFocus(playerInFocus, focusAcquire) ==
    /\ IF focusAcquire
       THEN /\ m_playerInFocus' = playerInFocus
            /\ IF acquires
               THEN /\ m_currentActivity' = "IDLE"
                    /\ m_haltInitiator' = "NONE"
                    /\ m_focusAcquireInProgress' = TRUE
                    /\ acquireCalls' = IF acquireCalls < 2 THEN acquireCalls + 1 ELSE acquireCalls
                    /\ step' = [Step("setPlayerInFocus", "", playerInFocus, focusAcquire, "", NoInfo, FALSE,
                                     <<Call("playbackRouter", NoHandler, "setHandler", "", "", "", 0),
                                       Call("focusManager", NoHandler, "acquireChannel", "", "", "", 0)>>)
                                    EXCEPT !.sync = assignActivitySync]
               ELSE /\ step' = Step("setPlayerInFocus", "", playerInFocus, focusAcquire, "", NoInfo, FALSE,
                                    <<Call("playbackRouter", NoHandler, "setHandler", "", "", "", 0)>>)
                    /\ UNCHANGED <<m_currentActivity, m_haltInitiator, m_focusAcquireInProgress, acquireCalls>>
       ELSE /\ step' = Step("setPlayerInFocus", "", playerInFocus, focusAcquire, "", NoInfo, FALSE,
                            IF releases(playerInFocus)
                            THEN <<Call("focusManager", NoHandler, "releaseChannel", "", "", "", 0)>>
                            ELSE <<>>)
            /\ UNCHANGED <<m_playerInFocus, m_currentActivity, m_haltInitiator, m_focusAcquireInProgress,
                           acquireCalls>>
    /\ UNCHANGED <<m_adapters, m_adapterHandlers, m_focus, executorQueue, focusThread, handled>>

\* setHaltInitiatorRequestHelper(request): the halt initiator it leaves
setHaltInitiatorRequestHelper_ResumeKeeps(request) ==
    CASE request = "PAUSE" -> "EXTERNAL_PAUSE"
      [] request = "PLAY" -> "NONE"
      [] OTHER -> m_haltInitiator

setHaltInitiatorRequestHelper_PauseKeeps(request) ==
    CASE request \in {"PLAY", "RESUME"} -> "NONE"
      [] OTHER -> m_haltInitiator

setHaltInitiatorRequestHelper_ToggleAlways(request) ==
    CASE request \in {"PAUSE", "PAUSE_RESUME_TOGGLE"} -> "EXTERNAL_PAUSE"
      [] request \in {"PLAY", "RESUME"} -> "NONE"
      [] OTHER -> m_haltInitiator

setHaltInitiatorRequestHelper(request) ==
    CASE request = "PAUSE" -> "EXTERNAL_PAUSE"
      [] request = "PAUSE_RESUME_TOGGLE" ->
            IF \/ m_currentActivity = "PLAYING"
               \/ (m_currentActivity = "PAUSED" /\ m_haltInitiator = "FOCUS_CHANGE_PAUSE")
            THEN "EXTERNAL_PAUSE"
            ELSE m_haltInitiator
      [] request \in {"PLAY", "RESUME"} -> "NONE"
      [] OTHER -> m_haltInitiator

\* the request types the agent names
RequestTypes ==
    {"NONE", "LOGIN", "LOGOUT", "PLAY", "RESUME", "PAUSE", "STOP", "PAUSE_RESUME_TOGGLE", "NEXT",
     "PREVIOUS", "START_OVER", "FAST_FORWARD", "REWIND", "ENABLE_REPEAT_ONE", "ENABLE_REPEAT",
     "DISABLE_REPEAT", "ENABLE_SHUFFLE", "DISABLE_SHUFFLE", "FAVORITE", "DESELECT_FAVORITE",
     "UNFAVORITE", "DESELECT_UNFAVORITE", "SEEK", "ADJUST_SEEK"}

\* one call of setHaltInitiatorRequestHelper(request)
callSetHaltInitiatorRequestHelper(request) ==
    /\ m_haltInitiator' = setHaltInitiatorRequestHelper(request)
    /\ step' = Step("setHaltInitiatorRequestHelper", "", "", FALSE, request, NoInfo, FALSE, <<>>)
    /\ UNCHANGED <<m_adapters, m_adapterHandlers, m_focus, m_focusAcquireInProgress, m_currentActivity,
                   m_playerInFocus, executorQueue, focusThread, acquireCalls>>

----------------------------------------------------------------------------
(* Directive handling *)

NullAdapter == ""

\* jsonUtils::retrieveValue(payload, field, &out) on a parsed payload
retrieveValue(d, field) ==
    field \in d.fields

\* what a handler leaves behind: its calls in order, the halt initiator, and the
\* adapter-handler operation it submitted to the executor ("" when none)
Effect(calls, halt, broadcast) ==
    [calls |-> calls, halt |-> halt, broadcast |-> broadcast]

\* setHandlingCompleted(info)
setHandlingCompleted(d) ==
    IF d.hasResult THEN <<Call("result", NoHandler, "setCompleted", "", "", "", 0)>> ELSE <<>>

\* sendExceptionEncounteredAndReportFailed(info, message)
sendExceptionEncounteredAndReportFailed(d, message) ==
    <<Call("exceptionSender", NoHandler, "sendExceptionEncountered", "", "", message, 0)>>
    \o (IF d.hasResult THEN <<Call("result", NoHandler, "setFailed", "", "", message, 0)>> ELSE <<>>)

\* parseDirectivePayload(info, &document): whether it parsed, and the calls made
parseDirectivePayload_NoReport(d) ==
    [ok |-> d.parses, calls |-> <<>>]

parseDirectivePayload(d) ==
    IF d.parses
    THEN [ok |-> TRUE, calls |-> <<>>]
    ELSE [ok |-> FALSE, calls |-> sendExceptionEncounteredAndReportFailed(d, "Unable to parse payload")]

\* preprocessDirective(info, &document): the adapter returned (NullAdapter for nullptr) and the calls made
preprocessDirective(d) ==
    LET parsed == parseDirectivePayload(d) IN
    IF ~parsed.ok
    THEN [adapter |-> NullAdapter, calls |-> parsed.calls]
    ELSE IF ~retrieveValue(d, "playerId")
    THEN [adapter |-> NullAdapter,
          calls |-> sendExceptionEncounteredAndReportFailed(d, "No PlayerId in directive.")]
    ELSE IF m_adapters = {}
    THEN [adapter |-> NullAdapter, calls |-> <<>>]
    ELSE IF d.playerId \notin m_adapters
    THEN [adapter |-> NullAdapter,
          calls |-> sendExceptionEncounteredAndReportFailed(d, "Unrecogonized PlayerId.")]
    ELSE [adapter |-> d.playerId, calls |-> <<>>]

\* a call on the registry adapter
AdapterCall(adapter, op, request, delta) ==
    Call("adapter", NoHandler, op, adapter, request, "", delta)

\* the first of the fields, in the order given, that the payload lacks (<<>> when none)
firstMissing(d, fields) ==
    SelectSeq(fields, LAMBDA f : ~retrieveValue(d, f))

handleAuthorizeDiscoveredPlayers(d, request) ==
    LET parsed == parseDirectivePayload(d) IN
    IF ~parsed.ok
    THEN Effect(parsed.calls, m_haltInitiator, "")
    ELSE Effect(<<>>, m_haltInitiator, "authorizeDiscoveredPlayers")

handleLogin(d, request) ==
    LET pre == preprocessDirective(d)
        missing == firstMissing(d, <<"accessToken", "tokenRefreshIntervalInMilliseconds", "forceLogin">>)
    IN
    IF pre.adapter = NullAdapter
    THEN Effect(pre.calls, m_haltInitiator, "login")
    ELSE IF missing # <<>>
    THEN Effect(sendExceptionEncounteredAndReportFailed(d, "missing " \o missing[1] \o " in Login directive"),
                m_haltInitiator, "")
    ELSE Effect(setHandlingCompleted(d) \o <<AdapterCall(pre.adapter, "handleLogin", "", 0)>>,
                m_haltInitiator, "")

handleLogout(d, request) ==
    LET pre == preprocessDirective(d) IN
    IF pre.adapter = NullAdapter
    THEN Effect(pre.calls, m_haltInitiator, "logout")
    ELSE Effect(setHandlingCompleted(d) \o <<AdapterCall(pre.adapter, "handleLogout", "", 0)>>,
                m_haltInitiator, "")

handlePlay_TokenOptional(d, request) ==
    LET pre == preprocessDirective(d)
        missing == firstMissing(d, <<"skillToken", "playbackSessionId", "navigation", "preload">>)
    IN
    IF pre.adapter = NullAdapter
    THEN Effect(pre.calls, setHaltInitiatorRequestHelper(request), "play")
    ELSE IF missing # <<>>
    THEN Effect(sendExceptionEncounteredAndReportFailed(d, "missing " \o missing[1] \o " in Play directive"),
                m_haltInitiator, "")
    ELSE Effect(setHandlingCompleted(d) \o <<AdapterCall(pre.adapter, "handlePlay", "", 0)>>,
                m_haltInitiator, "")

handlePlay(d, request) ==
    LET pre == preprocessDirective(d)
        missing == firstMissing(d, <<"playbackContextToken", "skillToken", "playbackSessionId",
                                     "navigation", "preload">>)
    IN
    IF pre.adapter = NullAdapter
    THEN Effect(pre.calls, setHaltInitiatorRequestHelper(request), "play")
    ELSE IF missing # <<>>
    THEN Effect(sendExceptionEncounteredAndReportFailed(d, "missing " \o missing[1] \o " in Play directive"),
                m_haltInitiator, "")
    ELSE Effect(setHandlingCompleted(d) \o <<AdapterCall(pre.adapter, "handlePlay", "", 0)>>,
                m_haltInitiator, "")

handleSeek_CompletesAfter(d, request) ==
    LET pre == preprocessDirective(d) IN
    IF pre.adapter = NullAdapter
    THEN Effect(pre.calls, m_haltInitiator, "seek")
    ELSE IF ~retrieveValue(d, "positionMilliseconds")
    THEN Effect(sendExceptionEncounteredAndReportFailed(
                    d, "missing positionMilliseconds in SetSeekPosition directive"),
                m_haltInitiator, "")
    ELSE Effect(<<AdapterCall(pre.adapter, "handleSeek", "", 0)>> \o setHandlingCompleted(d),
                m_haltInitiator, "")

handleSeek(d, request) ==
    LET pre == preprocessDirective(d) IN
    IF pre.adapter = NullAdapter
    THEN Effect(pre.calls, m_haltInitiator, "seek")
    ELSE IF ~retrieveValue(d, "positionMilliseconds")
    THEN Effect(sendExceptionEncounteredAndReportFailed(
                    d, "missing positionMilliseconds in SetSeekPosition directive"),
                m_haltInitiator, "")
    ELSE Effect(setHandlingCompleted(d) \o <<AdapterCall(pre.adapter, "handleSeek", "", 0)>>,
                m_haltInitiator, "")

\* the range check of handleAdjustSeek
outOfRange_LimitsExcluded(deltaPosition) ==
    deltaPosition <= MAX_PAST_OFFSET \/ deltaPosition >= MAX_FUTURE_OFFSET

outOfRange(deltaPosition) ==
    deltaPosition < MAX_PAST_OFFSET \/ deltaPosition > MAX_FUTURE_OFFSET

handleAdjustSeek(d, request) ==
    LET pre == preprocessDirective(d) IN
    IF pre.adapter = NullAdapter
    THEN Effect(pre.calls, m_haltInitiator, "adjustSeek")
    ELSE IF ~retrieveValue(d, "deltaPositionMilliseconds")
    THEN Effect(sendExceptionEncounteredAndReportFailed(
                    d, "missing deltaPositionMilliseconds in AdjustSeekPosition directive"),
                m_haltInitiator, "")
    ELSE IF outOfRange(d.delta)
    THEN Effect(sendExceptionEncounteredAndReportFailed(
                    d, "missing deltaPositionMilliseconds in AdjustSeekPosition directive"),
                m_haltInitiator, "")
    ELSE Effect(setHandlingCompleted(d) \o <<AdapterCall(pre.adapter, "handleAdjustSeek", "", d.delta)>>,
                m_haltInitiator, "")

handlePlayControl(d, request) ==
    LET pre == preprocessDirective(d) IN
    IF pre.adapter = NullAdapter
    THEN Effect(pre.calls, setHaltInitiatorRequestHelper(request), "playControl")
    ELSE Effect(setHandlingCompleted(d) \o <<AdapterCall(pre.adapter, "handlePlayControl", request, 0)>>,
                m_haltInitiator, "")

\* is (namespace, name) a key of the dispatch table?
hasHandler(key) ==
    key \in DOMAIN m_directiveToHandlerMap

\* the request type handleDirective passes on ("" when the key has no handler)
requestOf(d) ==
    IF hasHandler(d.key) THEN m_directiveToHandlerMap[d.key][1] ELSE ""

\* (this->*handler)(info, request) for a key of the dispatch table
invoke(d) ==
    LET request == m_directiveToHandlerMap[d.key][1]
        handler == m_directiveToHandlerMap[d.key][2]
    IN CASE handler = "handleAuthorizeDiscoveredPlayers" -> handleAuthorizeDiscoveredPlayers(d, request)
         [] handler = "handleLogin" -> handleLogin(d, request)
         [] handler = "handleLogout" -> handleLogout(d, request)
         [] handler = "handlePlay" -> handlePlay(d, request)
         [] handler = "handleSeek" -> handleSeek(d, request)
         [] handler = "handleAdjustSeek" -> handleAdjustSeek(d, request)
         [] handler = "handlePlayControl" -> handlePlayControl(d, request)

\* handleDirective(info): the lookup and the call of the handler
dispatch_UnknownKeyAsPause(d) ==
    IF ~hasHandler(d.key)
    THEN handlePlayControl(d, "PAUSE")
    ELSE invoke(d)

dispatch(d) ==
    IF ~hasHandler(d.key)
    THEN Effect(sendExceptionEncounteredAndReportFailed(d, "Unhandled directive"), m_haltInitiator, "")
    ELSE invoke(d)

\* what a sequence of calls tells the directive's result
signalsOf(calls) ==
    LET s == SelectSeq(calls, LAMBDA c : c.target = "result") IN [i \in 1..Len(s) |-> s[i].op]

\* the exception messages a sequence of calls sends
exceptionsOf(calls) ==
    LET s == SelectSeq(calls, LAMBDA c : c.target = "exceptionSender") IN [i \in 1..Len(s) |-> s[i].msg]

\* handleDirective(info) for the directive d
handleDirective(d) ==
    /\ LET e == dispatch(d)
           info == DirectiveInfo(d, signalsOf(e.calls), exceptionsOf(e.calls))
       IN /\ e.broadcast # "" => CanSubmit
          /\ executorQueue' =
                IF e.broadcast # ""
                THEN submit(executorQueue, <<Task("broadcast", "", e.broadcast, requestOf(d), info, NoHandler)>>)
                ELSE executorQueue
          /\ m_haltInitiator' = e.halt
          /\ step' = Step("handleDirective", "", "", FALSE, requestOf(d), info, e.broadcast # "", e.calls)
    /\ UNCHANGED <<m_adapters, m_adapterHandlers, m_focus, m_focusAcquireInProgress, m_currentActivity,
                   m_playerInFocus, focusThread, acquireCalls>>

\* the task a handler submitted: every adapter handler gets the raw payload, then the
\* directive is marked completed
RunBroadcast ==
    /\ executorQueue # <<>>
    /\ Head(executorQueue).kind = "broadcast"
    /\ \E ord \in Orders(m_adapterHandlers) :
         LET t == Head(executorQueue)
             calls == [i \in 1..Len(ord) |->
                          Call("handler", ord[i], t.op, "",
                               IF t.op = "playControl" THEN t.request ELSE "", "", 0)]
                      \o setHandlingCompleted(t.info.directive)
         IN step' = Step("executeBroadcast", "", "", FALSE, t.request,
                         DirectiveInfo(t.info.directive, t.info.signals \o signalsOf(calls),
                                       t.info.exceptions \o exceptionsOf(calls)),
                         FALSE, calls)
    /\ executorQueue' = Tail(executorQueue)
    /\ UNCHANGED <<m_adapters, m_adapterHandlers, arbitration, focusThread, acquireCalls, handled>>

----------------------------------------------------------------------------
(* Buttons and adapter handlers *)

\* onButtonPressed(button)
onButtonPressed(button) ==
    LET request == g_buttonToRequestType[button] IN
    /\ IF m_playerInFocus # "" /\ m_playerInFocus \notin m_adapters
       THEN /\ CanSubmit
            /\ m_haltInitiator' = setHaltInitiatorRequestHelper(request)
            /\ executorQueue' = submit(executorQueue, <<Task("button", "", "", request, NoInfo, NoHandler)>>)
            /\ step' = Step("onButtonPressed", "", "", FALSE, request, NoInfo, TRUE, <<>>)
       ELSE /\ step' = Step("onButtonPressed", "", "", FALSE, request, NoInfo, FALSE,
                            IF m_playerInFocus # ""
                            THEN <<AdapterCall(m_playerInFocus, "handlePlayControl", request, 0)>>
                            ELSE <<>>)
            /\ UNCHANGED <<m_haltInitiator, executorQueue>>
    /\ UNCHANGED <<m_adapters, m_adapterHandlers, m_focus, m_focusAcquireInProgress, m_currentActivity,
                   m_playerInFocus, focusThread, acquireCalls, handled>>

\* the task onButtonPressed submitted
RunButton ==
    /\ executorQueue # <<>>
    /\ Head(executorQueue).kind = "button"
    /\ \E ord \in Orders(m_adapterHandlers) :
         step' = Step("executeButton", "", "", FALSE, Head(executorQueue).request, NoInfo, FALSE,
                      playControlForPlayerAll(ord, Head(executorQueue).request))
    /\ executorQueue' = Tail(executorQueue)
    /\ UNCHANGED <<m_adapters, m_adapterHandlers, arbitration, focusThread, acquireCalls, handled>>

\* the adapter handlers offered to addAdapterHandler and removeAdapterHandler
NumOffered == 2

\* the longest executor queue of the adapter-handler model
MaxHandlerQueue == 3

\* m_adapterHandlers.insert(adapterHandler): the set it leaves and whether it inserted
insert(handlers, adapterHandler) ==
    [set |-> handlers \cup {adapterHandler}, second |-> adapterHandler \notin handlers]

\* m_adapterHandlers.erase(adapterHandler): the set it leaves and the number erased
erase_Clear(handlers, adapterHandler) ==
    [set |-> {}, erased |-> adapterHandler \in handlers]

erase(handlers, adapterHandler) ==
    [set |-> handlers \ {adapterHandler}, erased |-> adapterHandler \in handlers]

\* addAdapterHandler(adapterHandler): a null handler is refused, any other is queued
addAdapterHandler(adapterHandler) ==
    /\ IF adapterHandler = NoHandler
       THEN /\ step' = Step("addAdapterHandler", "", "", FALSE, "", NoInfo, FALSE, <<>>)
            /\ UNCHANGED executorQueue
       ELSE /\ Len(executorQueue) < MaxHandlerQueue
            /\ executorQueue' = submit(executorQueue,
                                       <<Task("addAdapterHandler", "", "", "", NoInfo, adapterHandler)>>)
            /\ step' = Step("addAdapterHandler", "", "", FALSE, "", NoInfo, TRUE, <<>>)
    /\ UNCHANGED <<m_adapters, m_adapterHandlers, arbitration, focusThread, acquireCalls, handled>>

\* the task addAdapterHandler submitted
RunAddAdapterHandler ==
    /\ executorQueue # <<>>
    /\ Head(executorQueue).kind = "addAdapterHandler"
    /\ LET h == Head(executorQueue).handler
           r == insert(m_adapterHandlers, h)
       IN /\ m_adapterHandlers' = r.set
          /\ step' = Step("executeAddAdapterHandler", "", "", FALSE, "", NoInfo, FALSE,
                          <<Call("m_adapterHandlers", h, "insert", "", "",
                                 IF r.second THEN "" ELSE "Duplicate adapter handler.", 0)>>)
    /\ executorQueue' = Tail(executorQueue)
    /\ UNCHANGED <<m_adapters, arbitration, focusThread, acquireCalls, handled>>

\* removeAdapterHandler(adapterHandler): a null handler is refused, any other is queued
removeAdapterHandler(adapterHandler) ==
    /\ IF adapterHandler = NoHandler
       THEN /\ step' = Step("removeAdapterHandler", "", "", FALSE, "", NoInfo, FALSE, <<>>)
            /\ UNCHANGED executorQueue
       ELSE /\ Len(executorQueue) < MaxHandlerQueue
            /\ executorQueue' = submit(executorQueue,
                                       <<Task("removeAdapterHandler", "", "", "", NoInfo, adapterHandler)>>)
            /\ step' = Step("removeAdapterHandler", "", "", FALSE, "", NoInfo, TRUE, <<>>)
    /\ UNCHANGED <<m_adapters, m_adapterHandlers, arbitration, focusThread, acquireCalls, handled>>

\* the task removeAdapterHandler submitted
RunRemoveAdapterHandler ==
    /\ executorQueue # <<>>
    /\ Head(executorQueue).kind = "removeAdapterHandler"
    /\ LET h == Head(executorQueue).handler
           r == erase(m_adapterHandlers, h)
       IN /\ m_adapterHandlers' = r.set
          /\ step' = Step("executeRemoveAdapterHandler", "", "", FALSE, "", NoInfo, FALSE,
                          <<Call("m_adapterHandlers", h, "erase", "", "",
                                 IF r.erased THEN "" ELSE "Nonexistent adapter handler.", 0)>>)
    /\ executorQueue' = Tail(executorQueue)
    /\ UNCHANGED <<m_adapters, arbitration, focusThread, acquireCalls, handled>>

----------------------------------------------------------------------------
(* Inputs *)

LoginFields == {"accessToken", "tokenRefreshIntervalInMilliseconds", "forceLogin"}

PlayFields == {"playbackContextToken", "skillToken", "playbackSessionId", "navigation", "preload"}

\* the deltas of AdjustSeekPosition directives: both limits and their neighbours
Deltas == {MAX_PAST_OFFSET - 1, MAX_PAST_OFFSET, MAX_PAST_OFFSET + 1, 0,
           MAX_FUTURE_OFFSET - 1, MAX_FUTURE_OFFSET, MAX_FUTURE_OFFSET + 1}

\* for a key and its handler's required fields: a payload that does not parse, one
\* without playerId, and a complete one per player id
Variants(key, fields) ==
    {Directive(key, FALSE, "", {}, 0, TRUE), Directive(key, TRUE, "", fields, 0, TRUE)}
    \cup {Directive(key, TRUE, p, fields \cup {"playerId"}, 0, TRUE) : p \in PlayerIds}

\* payloads for p1 that lack one required field
Lacking(key, fields) ==
    {Directive(key, TRUE, "p1", (fields \ {f}) \cup {"playerId"}, 0, TRUE) : f \in fields}

\* the directives of the dispatch model
Directives ==
    Variants(<<EXTERNALMEDIAPLAYER_NAMESPACE, "AuthorizeDiscoveredPlayers">>, {})
    \cup Variants(<<EXTERNALMEDIAPLAYER_NAMESPACE, "Login">>, LoginFields)
    \cup Lacking(<<EXTERNALMEDIAPLAYER_NAMESPACE, "Login">>, LoginFields)
    \cup Variants(<<EXTERNALMEDIAPLAYER_NAMESPACE, "Logout">>, {})
    \cup {Directive(<<EXTERNALMEDIAPLAYER_NAMESPACE, "Logout">>, TRUE, p, {"playerId"}, 0, FALSE) : p \in PlayerIds}
    \cup Variants(<<EXTERNALMEDIAPLAYER_NAMESPACE, "Play">>, PlayFields)
    \cup Lacking(<<EXTERNALMEDIAPLAYER_NAMESPACE, "Play">>, PlayFields)
    \cup Variants(<<PLAYBACKCONTROLLER_NAMESPACE, "Pause">>, {})
    \cup Variants(<<PLAYBACKCONTROLLER_NAMESPACE, "Play">>, {})
    \cup Variants(<<PLAYBACKCONTROLLER_NAMESPACE, "Next">>, {})
    \cup Variants(<<SEEKCONTROLLER_NAMESPACE, "SetSeekPosition">>, {"positionMilliseconds"})
    \cup Lacking(<<SEEKCONTROLLER_NAMESPACE, "SetSeekPosition">>, {"positionMilliseconds"})
    \cup Variants(<<SEEKCONTROLLER_NAMESPACE, "AdjustSeekPosition">>, {"deltaPositionMilliseconds"})
    \cup Lacking(<<SEEKCONTROLLER_NAMESPACE, "AdjustSeekPosition">>, {"deltaPositionMilliseconds"})
    \cup {Directive(<<SEEKCONTROLLER_NAMESPACE, "AdjustSeekPosition">>, TRUE, "p1",
                    {"playerId", "deltaPositionMilliseconds"}, n, TRUE) : n \in Deltas}
    \cup {Directive(<<EXTERNALMEDIAPLAYER_NAMESPACE, "Unknown">>, TRUE, "p1", {"playerId"}, 0, TRUE),
          Directive(<<"Alexa.Speaker", "Play">>, TRUE, "p1", PlayFields \cup {"playerId"}, 0, TRUE)}

\* the buttons of the arbitration model
Buttons == {"PLAY", "PAUSE", "NEXT"}

\* the directives of the arbitration model: the ones that reach setHaltInitiatorRequestHelper
ControlDirectives ==
    {d \in Directives : /\ d.key \in {<<PLAYBACKCONTROLLER_NAMESPACE, "Pause">>,
                                      <<PLAYBACKCONTROLLER_NAMESPACE, "Play">>}
                        /\ d.parses /\ d.playerId = "p2"}

----------------------------------------------------------------------------
(* The observer registry: addObserver, removeObserver, notifyObservers *)

\* the executor thread, which runs provideSessionState / providePlaybackState,
\* and a thread of the application
Threads == {"executor", "caller"}
Observers == {"o1", "o2"}
NoObserver == ""

\* a call into the registry: the function, the position in it, the observer
\* it is about, and notifyObservers' local copy still to be visited
Frame(fn, pc, observer, observers) ==
    [fn |-> fn, pc |-> pc, observer |-> observer, observers |-> observers]

top(t) == observerThreads[t][Len(observerThreads[t])]
push(t, f) == [observerThreads EXCEPT ![t] = Append(@, f)]
pop(t) == [observerThreads EXCEPT ![t] = SubSeq(@, 1, Len(@) - 1)]
setTop(t, f) == [observerThreads EXCEPT ![t] = [@ EXCEPT ![Len(observerThreads[t])] = f]]

\* an observer's callback is running on thread t
inCallback(t) ==
    \E i \in 1..Len(observerThreads[t]) :
        observerThreads[t][i].fn = "notifyObservers" /\ observerThreads[t][i].pc = "callback"

\* thread t can call into the registry: from outside, or from the observer
\* callback that notifyObservers is running on it
canCall(t) ==
    IF observerThreads[t] = <<>> THEN TRUE
    ELSE top(t).fn = "notifyObservers" /\ top(t).pc = "callback"

\* addObserver up to the lock_guard: a null observer is refused
addObserverCall(t, o) ==
    /\ canCall(t)
    /\ observerThreads' = IF o = NoObserver THEN observerThreads
                          ELSE push(t, Frame("addObserver", "lock", o, {}))
    /\ UNCHANGED <<m_observers, m_observersMutex>>

\* removeObserver up to the lock_guard: a null observer is refused
removeObserverCall(t, o) ==
    /\ canCall(t)
    /\ observerThreads' = IF o = NoObserver THEN observerThreads
                          ELSE push(t, Frame("removeObserver", "lock", o, {}))
    /\ UNCHANGED <<m_observers, m_observersMutex>>

\* notifyObservers up to the unique_lock: an empty player id returns at once
notifyObserversCall(t, playerId) ==
    /\ t = "executor"
    /\ observerThreads[t] = <<>>
    /\ observerThreads' = IF playerId = "" THEN observerThreads
                          ELSE push(t, Frame("notifyObservers", "lock", NoObserver, {}))
    /\ UNCHANGED <<m_observers, m_observersMutex>>

\* std::mutex::lock: blocks while any thread, the caller included, holds it
lockObservers(t) ==
    /\ observerThreads[t] # <<>>
    /\ top(t).pc = "lock"
    /\ m_observersMutex = ""
    /\ m_observersMutex' = t
    /\ observerThreads' = setTop(t, [top(t) EXCEPT !.pc = "locked"])
    /\ UNCHANGED m_observers

\* m_observers.insert(observer) and the end of the lock_guard's scope
insertObserver(t) ==
    /\ observerThreads[t] # <<>>
    /\ top(t).fn = "addObserver" /\ top(t).pc = "locked"
    /\ m_observers' = m_observers \cup {top(t).observer}
    /\ m_observersMutex' = ""
    /\ observerThreads' = pop(t)

\* m_observers.erase(observer) and the end of the lock_guard's scope
eraseObserver(t) ==
    /\ observerThreads[t] # <<>>
    /\ top(t).fn = "removeObserver" /\ top(t).pc = "locked"
    /\ m_observers' = m_observers \ {top(t).observer}
    /\ m_observersMutex' = ""
    /\ observerThreads' = pop(t)

\* the copy taken while the lock stays held over the callbacks
copyObservers_LockHeld(t) ==
    /\ observerThreads[t] # <<>>
    /\ top(t).fn = "notifyObservers" /\ top(t).pc = "locked"
    /\ observerThreads' = setTop(t, [top(t) EXCEPT !.pc = "iterate", !.observers = m_observers])
    /\ UNCHANGED <<m_observers, m_observersMutex>>

\* auto observers = m_observers; lock.unlock();
copyObservers(t) ==
    /\ observerThreads[t] # <<>>
    /\ top(t).fn = "notifyObservers" /\ top(t).pc = "locked"
    /\ observerThreads' = setTop(t, [top(t) EXCEPT !.pc = "iterate", !.observers = m_observers])
    /\ m_observersMutex' = ""
    /\ UNCHANGED m_observers

\* a loop over the registry as it is now, not over the copy
nextObserver_LiveSet(t) ==
    /\ observerThreads[t] # <<>>
    /\ top(t).fn = "notifyObservers" /\ top(t).pc = "iterate"
    /\ IF top(t).observers = {}
       THEN /\ observerThreads' = pop(t)
            /\ m_observersMutex' = IF m_observersMutex = t THEN "" ELSE m_observersMutex
       ELSE /\ \E o \in top(t).observers \cup m_observers :
                observerThreads' = setTop(t, [top(t) EXCEPT !.pc = "callback", !.observer = o,
                                                            !.observers = @ \ {o}])
            /\ UNCHANGED m_observersMutex
    /\ UNCHANGED m_observers

\* one round of the loop over the copy: the callback of the next observer
\* starts, or the loop ends and the unique_lock goes out of scope, which
\* unlocks only a lock it owns
nextObserver(t) ==
    /\ observerThreads[t] # <<>>
    /\ top(t).fn = "notifyObservers" /\ top(t).pc = "iterate"
    /\ IF top(t).observers = {}
       THEN /\ observerThreads' = pop(t)
            /\ m_observersMutex' = IF m_observersMutex = t THEN "" ELSE m_observersMutex
       ELSE /\ \E o \in top(t).observers :
                observerThreads' = setTop(t, [top(t) EXCEPT !.pc = "callback", !.observer = o,
                                                            !.observers = @ \ {o}])
            /\ UNCHANGED m_observersMutex
    /\ UNCHANGED m_observers

\* onLoginStateProvided / onPlaybackStateProvided returns
callbackReturn(t) ==
    /\ observerThreads[t] # <<>>
    /\ top(t).fn = "notifyObservers" /\ top(t).pc = "callback"
    /\ observerThreads' = setTop(t, [top(t) EXCEPT !.pc = "iterate", !.observer = NoObserver])
    /\ UNCHANGED <<m_observers, m_observersMutex>>

\* a step inside a call into the registry
registryStep(t) ==
    \/ lockObservers(t)
    \/ insertObserver(t)
    \/ eraseObserver(t)
    \/ copyObservers(t)
    \/ nextObserver(t)
    \/ callbackReturn(t)

\* the registry and the life cycle as create() leaves them
outsideInit ==
    /\ m_observers = {}
    /\ m_observersMutex = ""
    /\ observerThreads = [t \in Threads |-> <<>>]
    /\ instance = "live"
    /\ lastGrant = NoGrant

\* the state of arbitration and dispatch
inside == <<m_adapters, m_adapterHandlers, m_focus, m_focusAcquireInProgress, m_haltInitiator,
            m_currentActivity, m_playerInFocus, executorQueue, focusThread, acquireCalls,
            handled, channel, lastGrant, step>>

----------------------------------------------------------------------------
(* State reports: provideState, executeProvideState *)

MaxAdapterStates == 1

\* std::map iterates m_adapters in the order of its keys
PlayerOrder == <<"p1", "p2">>
inKeyOrder(players) == SelectSeq(PlayerOrder, LAMBDA p : p \in players)

SESSION_STATE == "ExternalMediaPlayer.ExternalMediaPlayerState"
PLAYBACK_STATE == "Alexa.PlaybackStateReporter.playbackState"
StateProviderNames == {SESSION_STATE, PLAYBACK_STATE, "SpeechSynthesizer.SpeechState"}
StateRequestTokens == {0, 1}

\* an AdapterState: the player ids of its session state and of its playback state
AdapterState(sessionPlayerId, playbackPlayerId) ==
    [sessionState |-> [playerId |-> sessionPlayerId],
     playbackState |-> [playerId |-> playbackPlayerId]]

\* what a registry adapter's getState() may hold for player p: the adapter
\* names itself, or has not filled a player id in
AdapterStatesOf(p) == {AdapterState(s, b) : s \in {p, ""}, b \in {p, ""}}

\* what a handler's getAdapterStates() may return: up to MaxAdapterStates
\* states of the player it manages, with or without player ids
RECURSIVE SeqsUpTo(_, _)
SeqsUpTo(S, n) ==
    IF n = 0 THEN {<<>>}
    ELSE SeqsUpTo(S, n - 1) \cup {Append(q, x) : q \in {r \in SeqsUpTo(S, n - 1) : Len(r) = n - 1}, x \in S}
HandlerAdapterStates == SeqsUpTo(AdapterStatesOf("p2"), MaxAdapterStates)

RECURSIVE concat(_)
concat(seqs) == IF seqs = <<>> THEN <<>> ELSE Head(seqs) \o concat(Tail(seqs))

\* a player's block of a snapshot, and where it came from
Block(source, playerId) == [source |-> source, playerId |-> playerId]

\* notifyObservers as one step: nothing for an empty player id, else the
\* callback of every observer of the copy, in the copy's order
notifyObservers(playerId, callback, observers) ==
    IF playerId = "" THEN <<>>
    ELSE [i \in 1..Len(observers) |-> Call("observer", observers[i], callback, playerId, "", "", 0)]

\* the second loop of provideSessionState: states with an empty player id are skipped
handlerSessionBlocks(adapterStates) ==
    LET kept == SelectSeq(adapterStates, LAMBDA a : a.sessionState.playerId # "")
    IN [i \in 1..Len(kept) |-> Block("handler", kept[i].sessionState.playerId)]

\* the second loop of providePlaybackState: every state is appended
handlerPlaybackBlocks(adapterStates) ==
    [i \in 1..Len(adapterStates) |-> Block("handler", adapterStates[i].playbackState.playerId)]

\* the first loop of both functions: each registry adapter's state is followed
\* by notifyObservers
registryNotifications(states, field, callback, observers) ==
    concat([i \in 1..Len(states) |-> notifyObservers(states[i][field].playerId, callback, observers)])

provideSessionState(registryStates, adapterStates, observers) ==
    [state |-> [playerInFocus |-> m_playerInFocus,
                players |-> [i \in 1..Len(registryStates) |->
                                Block("adapter", registryStates[i].sessionState.playerId)]
                            \o handlerSessionBlocks(adapterStates)],
     calls |-> registryNotifications(registryStates, "sessionState", "onLoginStateProvided", observers)]

providePlaybackState(registryStates, adapterStates, observers) ==
    [state |-> [players |-> [i \in 1..Len(registryStates) |->
                                Block("adapter", registryStates[i].playbackState.playerId)]
                            \o handlerPlaybackBlocks(adapterStates)],
     calls |-> registryNotifications(registryStates, "playbackState", "onPlaybackStateProvided", observers)]

noState == [players |-> <<>>]

\* executeProvideState: the handlers' states are collected only when the
\* registry is empty; an unknown name is logged and nothing is set
executeProvideState(name, registryStates, handlerStates, observers) ==
    LET adapterStates == IF m_adapters = {} THEN concat(handlerStates) ELSE <<>>
        r == IF name = SESSION_STATE
             THEN provideSessionState(registryStates, adapterStates, observers)
             ELSE providePlaybackState(registryStates, adapterStates, observers)
    IN IF name \notin {SESSION_STATE, PLAYBACK_STATE}
       THEN [state |-> noState, calls |-> <<>>]
       ELSE [state |-> r.state,
             calls |-> r.calls \o <<Call("m_contextManager", NoHandler, "setState", "", "", name, 0)>>]

\* provideState: the request joins the queue with its token
provideState(name, token) ==
    /\ CanSubmit
    /\ executorQueue' = submit(executorQueue,
                               <<Task("executeProvideState", "", name, "", NoInfo, NoHandler)
                                   @@ [token |-> token]>>)
    /\ step' = Step("provideState", "", "", FALSE, name, NoInfo, TRUE, <<>>)
    /\ UNCHANGED <<m_adapters, m_adapterHandlers, m_focus, m_focusAcquireInProgress, m_haltInitiator,
                   m_currentActivity, m_playerInFocus, focusThread, acquireCalls>>

\* the executor runs executeProvideState; notifyObservers takes m_observersMutex
\* for its copy, so it waits while another thread holds it
RunProvideState ==
    /\ executorQueue # <<>>
    /\ Head(executorQueue).kind = "executeProvideState"
    /\ \E ho \in Orders(m_adapterHandlers), observers \in Orders(m_observers),
          rs \in [m_adapters -> UNION {AdapterStatesOf(p) : p \in PlayerIds}],
          hs \in [m_adapterHandlers -> HandlerAdapterStates] :
         LET t == Head(executorQueue)
             registryStates == [i \in 1..Len(inKeyOrder(m_adapters)) |-> rs[inKeyOrder(m_adapters)[i]]]
             handlerStates == [i \in 1..Len(ho) |-> hs[ho[i]]]
             r == executeProvideState(t.op, registryStates, handlerStates, observers)
         IN /\ \A p \in m_adapters : rs[p] \in AdapterStatesOf(p)
            /\ (\E i \in 1..Len(r.calls) : r.calls[i].target = "observer") => m_observersMutex = ""
            /\ step' = Step("executeProvideState", "", "", FALSE, t.op, NoInfo, FALSE, r.calls)
                          @@ [state |-> r.state, token |-> t.token, observers |-> m_observers]
    /\ executorQueue' = Tail(executorQueue)
    /\ UNCHANGED <<m_adapters, m_adapterHandlers, m_focus, m_focusAcquireInProgress, m_haltInitiator,
                   m_currentActivity, m_playerInFocus, focusThread, acquireCalls>>

----------------------------------------------------------------------------
(* Construction *)

\* a call on a member or a collaborator of the agent
memberCall(target, op, msg) == Call(target, NoHandler, op, "", "", msg, 0)

\* the collaborators create() requires, in the order it checks them
requiredCollaborators ==
    <<"speakerManager", "messageSender", "focusManager", "contextManager", "exceptionSender",
      "playbackRouter">>
Collaborators == {requiredCollaborators[i] : i \in 1..Len(requiredCollaborators)}

\* what the three maps hold for a player: no entry in adapterCreationMap, an
\* entry without a media player, one without a speaker, one whose factory
\* returns null, one whose factory returns an adapter
CreationEntries == {"absent", "noMediaPlayer", "noSpeaker", "nullAdapter", "adapter"}

CreateArgs == [given : SUBSET Collaborators, creation : [PlayerIds -> CreationEntries]]

\* createAdapters over the entries of adapterCreationMap in the order ord
createAdapters(creation, ord) ==
    LET built == SelectSeq(ord, LAMBDA p : creation[p] \in {"nullAdapter", "adapter"})
    IN [adapters |-> {p \in PlayerIds : creation[p] = "adapter"},
        calls |-> [i \in 1..Len(built) |-> Call("factory", NoHandler, "create", built[i], "", "", 0)]]

\* create() once its checks passed: both state providers, then the adapters
construct(args, ord) ==
    [instance |-> "live",
     adapters |-> createAdapters(args.creation, ord).adapters,
     calls |-> <<memberCall("contextManager", "setStateProvider", "SESSION_STATE"),
                 memberCall("contextManager", "setStateProvider", "PLAYBACK_STATE")>>
               \o createAdapters(args.creation, ord).calls]

noInstance == [instance |-> "none", adapters |-> {}, calls |-> <<>>]

\* the playback router looked at only after the agent was built
created_RouterCheckedLast(args, ord) ==
    IF SelectSeq(SubSeq(requiredCollaborators, 1, 5), LAMBDA c : c \notin args.given) # <<>>
    THEN noInstance
    ELSE IF "playbackRouter" \notin args.given
         THEN [construct(args, ord) EXCEPT !.instance = "none", !.adapters = {}]
         ELSE construct(args, ord)

\* create(): nullptr at the first absent collaborator, before anything else
created(args, ord) ==
    IF SelectSeq(requiredCollaborators, LAMBDA c : c \notin args.given) # <<>>
    THEN noInstance
    ELSE construct(args, ord)

create(args) ==
    /\ instance = "none"
    /\ \E ord \in Orders({p \in PlayerIds : args.creation[p] # "absent"}) :
         LET r == created(args, ord)
         IN /\ instance' = r.instance
            /\ m_adapters' = r.adapters
            /\ step' = Step("create", "", "", FALSE, "", NoInfo, FALSE, r.calls) @@ [args |-> args]
    /\ UNCHANGED <<m_adapterHandlers, m_focus, m_focusAcquireInProgress, m_haltInitiator,
                   m_currentActivity, m_playerInFocus, executorQueue, focusThread, acquireCalls>>

----------------------------------------------------------------------------
(* Shutdown *)

\* the stages of doShutdown: what it stops and detaches from, and what it releases
detachCalls ==
    <<memberCall("m_executor", "shutdown", ""),
      memberCall("m_adapterHandlers", "clear", ""),
      memberCall("m_focusManager", "reset", ""),
      memberCall("m_contextManager", "setStateProvider", "SESSION_STATE"),
      memberCall("m_contextManager", "setStateProvider", "PLAYBACK_STATE")>>

releaseCalls ==
    <<memberCall("m_adapters", "clear", ""),
      memberCall("m_exceptionEncounteredSender", "reset", ""),
      memberCall("m_contextManager", "reset", ""),
      memberCall("m_playbackRouter", "reset", ""),
      memberCall("m_speakerManager", "reset", "")>>

adapterShutdownCalls ==
    [i \in 1..Len(inKeyOrder(m_adapters)) |->
        Call("adapter", NoHandler, "shutdown", inKeyOrder(m_adapters)[i], "", "", 0)]

\* the registry released before its adapters were shut down
doShutdownCalls_ReleaseFirst ==
    detachCalls \o <<releaseCalls[1]>> \o adapterShutdownCalls \o Tail(releaseCalls)

\* the calls of doShutdown in program order
doShutdownCalls ==
    detachCalls \o adapterShutdownCalls \o releaseCalls

\* doShutdown: the executor is shut down, which discards what is queued and
\* accepts nothing more, then the handlers, collaborators and adapters go
doShutdown ==
    /\ instance = "live"
    /\ instance' = "shutdown"
    /\ executorQueue' = <<>>
    /\ m_adapterHandlers' = {}
    /\ m_adapters' = {}
    /\ step' = Step("doShutdown", "", "", FALSE, "", NoInfo, FALSE, doShutdownCalls)
    /\ UNCHANGED <<m_focus, m_focusAcquireInProgress, m_haltInitiator, m_currentActivity,
                   m_playerInFocus, focusThread, acquireCalls>>

----------------------------------------------------------------------------
(* Specifications *)

\* the agent as constructed: create() built the registry from the creation map; none of
\* the adapter handlers is registered, or all of them are
Init ==
    /\ m_adapters \in Registries
    /\ m_adapterHandlers \in {{HandlerNames[i] : i \in 1..n} : n \in {0, NumHandlers}}
    /\ m_focus = "NONE"
    /\ m_focusAcquireInProgress = FALSE
    /\ m_haltInitiator = "NONE"
    /\ m_currentActivity = "IDLE"
    /\ m_playerInFocus = ""
    /\ executorQueue = <<>>
    /\ focusThread = "idle"
    /\ acquireCalls = 0
    /\ handled = 0
    /\ channel = "idle"
    /\ outsideInit
    /\ step = Step("create", "", "", FALSE, "", NoInfo, FALSE, <<>>)

Next ==
    \/ \E newFocus \in FocusStates : onFocusChanged(newFocus) /\ UNCHANGED <<channel, outside>>
    \/ onFocusChangedReturn /\ UNCHANGED <<channel, outside>>
    \/ onFocusChangedTimedOut /\ UNCHANGED <<channel, outside>>
    \/ RunFocusChanged /\ UNCHANGED <<channel, outside>>
    \/ \E a \in PlayerActivities : setCurrentActivity(a) /\ UNCHANGED <<channel, outside>>
    \/ \E p \in PlayerIds, acquire \in BOOLEAN : setPlayerInFocus(p, acquire) /\ UNCHANGED <<channel, outside>>
    \/ \E b \in Buttons : onButtonPressed(b) /\ UNCHANGED <<channel, outside>>
    \/ RunButton /\ UNCHANGED <<channel, outside>>
    \/ \E d \in ControlDirectives : handleDirective(d) /\ UNCHANGED handled /\ UNCHANGED <<channel, outside>>
    \/ RunBroadcast /\ UNCHANGED <<channel, outside>>

Spec == Init /\ [][Next]_vars

\* the dispatch model: the agent as constructed, with any of the adapter handlers registered
InitDispatch ==
    /\ m_adapters \in Registries
    /\ m_adapterHandlers \in SUBSET Handlers
    /\ m_focus = "NONE"
    /\ m_focusAcquireInProgress = FALSE
    /\ m_haltInitiator = "NONE"
    /\ m_currentActivity = "IDLE"
    /\ m_playerInFocus = ""
    /\ executorQueue = <<>>
    /\ focusThread = "idle"
    /\ acquireCalls = 0
    /\ handled = 0
    /\ channel = "idle"
    /\ outsideInit
    /\ step = Step("create", "", "", FALSE, "", NoInfo, FALSE, <<>>)

NextDispatch ==
    \/ \E d \in Directives : handled < MaxDirectives /\ handleDirective(d) /\ handled' = handled + 1 /\ UNCHANGED <<channel, outside>>
    \/ RunBroadcast /\ UNCHANGED <<channel, outside>>

SpecDispatch == InitDispatch /\ [][NextDispatch]_vars

\* the adapter-handler model: the agent as constructed, handlers added and removed
OfferedHandlers ==
    {HandlerNames[i] : i \in 1..NumOffered}

InitHandlers ==
    /\ m_adapters \in Registries
    /\ m_adapterHandlers = {}
    /\ m_focus = "NONE"
    /\ m_focusAcquireInProgress = FALSE
    /\ m_haltInitiator = "NONE"
    /\ m_currentActivity = "IDLE"
    /\ m_playerInFocus = ""
    /\ executorQueue = <<>>
    /\ focusThread = "idle"
    /\ acquireCalls = 0
    /\ handled = 0
    /\ channel = "idle"
    /\ outsideInit
    /\ step = Step("create", "", "", FALSE, "", NoInfo, FALSE, <<>>)

NextHandlers ==
    \/ \E h \in OfferedHandlers \cup {NoHandler} : addAdapterHandler(h) /\ UNCHANGED <<channel, outside>>
    \/ RunAddAdapterHandler /\ UNCHANGED <<channel, outside>>
    \/ \E h \in OfferedHandlers \cup {NoHandler} : removeAdapterHandler(h) /\ UNCHANGED <<channel, outside>>
    \/ RunRemoveAdapterHandler /\ UNCHANGED <<channel, outside>>

SpecHandlers == InitHandlers /\ [][NextHandlers]_vars

\* the directives of the session model: a Play and a Pause control for the player
\* without a registry adapter, and a Play control that does not parse, that has no
\* playerId, and that names the player of the registry
SessionDirectives ==
    {d \in Directives : /\ d.key \in {<<EXTERNALMEDIAPLAYER_NAMESPACE, "Play">>,
                                      <<PLAYBACKCONTROLLER_NAMESPACE, "Pause">>}
                        /\ d.parses /\ d.playerId = "p2"
                        /\ (d.key[2] = "Play" => PlayFields \subseteq d.fields)}
    \cup {d \in Variants(<<PLAYBACKCONTROLLER_NAMESPACE, "Play">>, {}) : d.playerId # "p2"}

\* the release protocol as the focus manager sees it: releaseChannel is called, the
\* focus manager answers with onFocusChanged(NONE), the executor processes that grant
channelAfterSetPlayerInFocus(playerInFocus, focusAcquire) ==
    IF focusAcquire THEN "idle"
    ELSE IF releases(playerInFocus) THEN "releaseRequested"
    ELSE channel

channelAfterOnFocusChanged(newFocus) ==
    IF newFocus = "NONE" /\ channel = "releaseRequested" THEN "releaseGranted" ELSE channel

channelAfterRunFocusChanged ==
    IF Head(executorQueue).newFocus = "NONE" /\ channel = "releaseGranted" THEN "released" ELSE channel

\* the session model: a player takes and gives up the channel while directives and
\* buttons arrive; activity changes only through the focus reactions
NextSession ==
    \/ \E p \in PlayerIds, acquire \in BOOLEAN :
          setPlayerInFocus(p, acquire) /\ channel' = channelAfterSetPlayerInFocus(p, acquire) /\ UNCHANGED outside
    \/ \E newFocus \in FocusStates :
          onFocusChanged(newFocus) /\ channel' = channelAfterOnFocusChanged(newFocus) /\ UNCHANGED outside
    \/ onFocusChangedReturn /\ UNCHANGED <<channel, outside>>
    \/ onFocusChangedTimedOut /\ UNCHANGED <<channel, outside>>
    \/ RunFocusChanged /\ channel' = channelAfterRunFocusChanged /\ UNCHANGED outside
    \/ \E b \in Buttons : onButtonPressed(b) /\ UNCHANGED <<channel, outside>>
    \/ RunButton /\ UNCHANGED <<channel, outside>>
    \/ \E d \in SessionDirectives : handleDirective(d) /\ UNCHANGED <<handled, channel, outside>>
    \/ RunBroadcast /\ UNCHANGED <<channel, outside>>

SpecSession == Init /\ [][NextSession]_vars

\* the observer registry under concurrent registration and notification
NextObservers ==
    \/ \E t \in Threads, o \in Observers \cup {NoObserver} :
          addObserverCall(t, o) /\ UNCHANGED <<inside, instance>>
    \/ \E t \in Threads, o \in Observers \cup {NoObserver} :
          removeObserverCall(t, o) /\ UNCHANGED <<inside, instance>>
    \/ \E t \in Threads, playerId \in PlayerIds \cup {""} :
          notifyObserversCall(t, playerId) /\ UNCHANGED <<inside, instance>>
    \/ \E t \in Threads : lockObservers(t) /\ UNCHANGED <<inside, instance>>
    \/ \E t \in Threads : insertObserver(t) /\ UNCHANGED <<inside, instance>>
    \/ \E t \in Threads : eraseObserver(t) /\ UNCHANGED <<inside, instance>>
    \/ \E t \in Threads : copyObservers(t) /\ UNCHANGED <<inside, instance>>
    \/ \E t \in Threads : nextObserver(t) /\ UNCHANGED <<inside, instance>>
    \/ \E t \in Threads : callbackReturn(t) /\ UNCHANGED <<inside, instance>>

SpecObservers == Init /\ [][NextObservers]_vars

\* the agent with any registry, up to its shutdown and after it
InitShutdown ==
    /\ m_adapters \in SUBSET PlayerIds
    /\ m_adapterHandlers \in {{HandlerNames[i] : i \in 1..n} : n \in 0..NumHandlers}
    /\ m_focus = "NONE"
    /\ m_focusAcquireInProgress = FALSE
    /\ m_haltInitiator = "NONE"
    /\ m_currentActivity = "IDLE"
    /\ m_playerInFocus = ""
    /\ executorQueue = <<>>
    /\ focusThread = "idle"
    /\ acquireCalls = 0
    /\ handled = 0
    /\ channel = "idle"
    /\ outsideInit
    /\ step = Step("create", "", "", FALSE, "", NoInfo, FALSE, <<>>)

shutdownRest == <<handled, channel, m_observers, m_observersMutex, observerThreads, lastGrant>>

NextShutdown ==
    \/ \E newFocus \in FocusStates : onFocusChanged(newFocus) /\ UNCHANGED <<shutdownRest, instance>>
    \/ onFocusChangedReturn /\ UNCHANGED <<shutdownRest, instance>>
    \/ onFocusChangedTimedOut /\ UNCHANGED <<shutdownRest, instance>>
    \/ RunFocusChanged /\ UNCHANGED <<shutdownRest, instance>>
    \/ \E p \in PlayerIds, acquire \in BOOLEAN :
          setPlayerInFocus(p, acquire) /\ UNCHANGED <<shutdownRest, instance>>
    \/ doShutdown /\ UNCHANGED shutdownRest

SpecShutdown == InitShutdown /\ [][NextShutdown]_vars

\* wait_for(lock, TIMEOUT, predicate) comes back: a thread in the wait leaves it, by the
\* predicate or by the timeout, whatever the executor does
waitEnds ==
    (onFocusChangedReturn \/ onFocusChangedTimedOut) /\ UNCHANGED <<shutdownRest, instance>>

SpecShutdownFair == InitShutdown /\ [][NextShutdown]_vars /\ WF_vars(waitEnds)

\* before create(): no agent yet
InitCreate ==
    /\ m_adapters = {}
    /\ m_adapterHandlers = {}
    /\ m_focus = "NONE"
    /\ m_focusAcquireInProgress = FALSE
    /\ m_haltInitiator = "NONE"
    /\ m_currentActivity = "IDLE"
    /\ m_playerInFocus = ""
    /\ executorQueue = <<>>
    /\ focusThread = "idle"
    /\ acquireCalls = 0
    /\ handled = 0
    /\ channel = "idle"
    /\ m_observers = {}
    /\ m_observersMutex = ""
    /\ observerThreads = [t \in Threads |-> <<>>]
    /\ instance = "none"
    /\ lastGrant = NoGrant
    /\ step = Step("", "", "", FALSE, "", NoInfo, FALSE, <<>>)

NextCreate ==
    \E args \in CreateArgs : create(args) /\ UNCHANGED shutdownRest

SpecCreate == InitCreate /\ [][NextCreate]_vars

\* state requests from the context manager while the application registers
\* and removes observers
NextReport ==
    \/ \E name \in StateProviderNames, token \in StateRequestTokens :
          provideState(name, token) /\ UNCHANGED <<shutdownRest, instance>>
    \/ RunProvideState /\ UNCHANGED <<shutdownRest, instance>>
    \/ \E o \in Observers : addObserverCall("caller", o) /\ UNCHANGED <<inside, instance>>
    \/ \E o \in Observers : removeObserverCall("caller", o) /\ UNCHANGED <<inside, instance>>
    \/ lockObservers("caller") /\ UNCHANGED <<inside, instance>>
    \/ insertObserver("caller") /\ UNCHANGED <<inside, instance>>
    \/ eraseObserver("caller") /\ UNCHANGED <<inside, instance>>

SpecReport == Init /\ [][NextReport]_vars

\* setHaltInitiatorRequestHelper as a function of the request, the activity and
\* the halt initiator it finds
InitHelper ==
    /\ m_adapters \in Registries
    /\ m_adapterHandlers = {}
    /\ m_focus = "NONE"
    /\ m_focusAcquireInProgress = FALSE
    /\ m_haltInitiator \in HaltInitiators
    /\ m_currentActivity \in PlayerActivities
    /\ m_playerInFocus = ""
    /\ executorQueue = <<>>
    /\ focusThread = "idle"
    /\ acquireCalls = 0
    /\ handled = 0
    /\ channel = "idle"
    /\ outsideInit
    /\ step = Step("create", "", "", FALSE, "", NoInfo, FALSE, <<>>)

NextHelper ==
    \E request \in RequestTypes :
        callSetHaltInitiatorRequestHelper(request) /\ UNCHANGED <<shutdownRest, instance>>

SpecHelper == InitHelper /\ [][NextHelper]_vars

\* focus grants, activity reports of the handlers, the player in focus and
\* the buttons, with the grant processed just before the last operation kept
grantsRest == <<handled, channel, m_observers, m_observersMutex, observerThreads, instance>>

NextGrants ==
    \/ \E newFocus \in FocusStates :
          onFocusChanged(newFocus) /\ lastGrant' = grantOf(step) /\ UNCHANGED grantsRest
    \/ onFocusChangedReturn /\ lastGrant' = grantOf(step) /\ UNCHANGED grantsRest
    \/ onFocusChangedTimedOut /\ lastGrant' = grantOf(step) /\ UNCHANGED grantsRest
    \/ RunFocusChanged /\ lastGrant' = grantOf(step) /\ UNCHANGED grantsRest
    \/ \E a \in PlayerActivities :
          setCurrentActivity(a) /\ lastGrant' = NoGrant /\ UNCHANGED grantsRest
    \/ \E p \in PlayerIds, acquire \in BOOLEAN :
          setPlayerInFocus(p, acquire) /\ lastGrant' = NoGrant /\ UNCHANGED grantsRest
    \/ \E b \in Buttons : onButtonPressed(b) /\ lastGrant' = NoGrant /\ UNCHANGED grantsRest
    \/ RunButton /\ lastGrant' = NoGrant /\ UNCHANGED grantsRest

\* the agent with an adapter for p1 in its registry and every handler registered
InitGrants ==
    /\ m_adapters = {"p1"}
    /\ m_adapterHandlers = {HandlerNames[i] : i \in 1..NumHandlers}
    /\ m_focus = "NONE"
    /\ m_focusAcquireInProgress = FALSE
    /\ m_haltInitiator = "NONE"
    /\ m_currentActivity = "IDLE"
    /\ m_playerInFocus = ""
    /\ executorQueue = <<>>
    /\ focusThread = "idle"
    /\ acquireCalls = 0
    /\ handled = 0
    /\ channel = "idle"
    /\ outsideInit
    /\ step = Step("create", "", "", FALSE, "", NoInfo, FALSE, <<>>)

SpecGrants == InitGrants /\ [][NextGrants]_vars

----------------------------------------------------------------------------
(* Properties of focus arbitration, checked under Spec *)

\* the last operation was the executor processing a focus grant of newFocus
Granted(newFocus) ==
    step.op = "executeOnFocusChanged" /\ step.newFocus = newFocus

\* the playControlForPlayer calls of the last operation that carry the request
Controls(request) ==
    SelectSeq(step.calls, LAMBDA c : c.op = "playControlForPlayer" /\ c.request = request)

\* the last operation made one call, playControlForPlayer(player, request), on every
\* registered adapter handler, and no other call
OneControlPerHandler(player, request) ==
    /\ Len(step.calls) = Cardinality(m_adapterHandlers)
    /\ \A h \in m_adapterHandlers :
         \E i \in 1..Len(step.calls) :
            step.calls[i] = Call("handler", h, "playControlForPlayer", player, request, "", 0)

\* the last operation found a player in focus that is not in the adapter registry
HandlerManaged ==
    step.pre.player # "" /\ step.pre.player \notin m_adapters

\* C1 as stated: with a player in focus and activity PLAYING, a processed BACKGROUND
\* grant leaves activity PAUSED and HaltInitiator FOCUS_CHANGE_PAUSE and issues exactly
\* one PAUSE control to the player in focus.
C1_AsStated ==
    (Granted("BACKGROUND") /\ step.pre.player # "" /\ step.pre.activity = "PLAYING")
    => /\ m_currentActivity = "PAUSED"
       /\ m_haltInitiator = "FOCUS_CHANGE_PAUSE"
       /\ Len(Controls("PAUSE")) = 1
       /\ \A i \in 1..Len(Controls("PAUSE")) : Controls("PAUSE")[i].player = step.pre.player

\* C1 amended: with a player in focus that has no adapter in the registry, a recorded
\* focus other than BACKGROUND and activity PLAYING, a processed BACKGROUND grant leaves
\* activity PAUSED, leaves HaltInitiator FOCUS_CHANGE_PAUSE unless it was EXTERNAL_PAUSE
\* (which stays), and issues exactly one PAUSE control for the player in focus to each
\* registered adapter handler.
C1_BackgroundPauses ==
    (Granted("BACKGROUND") /\ HandlerManaged /\ step.pre.focus # "BACKGROUND"
        /\ step.pre.activity = "PLAYING")
    => /\ m_currentActivity = "PAUSED"
       /\ m_haltInitiator = IF step.pre.halt = "EXTERNAL_PAUSE" THEN "EXTERNAL_PAUSE" ELSE "FOCUS_CHANGE_PAUSE"
       /\ OneControlPerHandler(step.pre.player, "PAUSE")

C1_Witness ==
    /\ Granted("BACKGROUND") /\ HandlerManaged /\ step.pre.focus = "FOREGROUND"
    /\ step.pre.activity = "PLAYING" /\ step.pre.halt = "NONE"
    /\ m_currentActivity = "PAUSED" /\ m_haltInitiator = "FOCUS_CHANGE_PAUSE"
    /\ Len(Controls("PAUSE")) = 1

\* C2 as stated: a processed FOREGROUND grant while PAUSED with HaltInitiator
\* FOCUS_CHANGE_PAUSE leaves activity PLAYING and issues exactly one RESUME control; while
\* HaltInitiator is EXTERNAL_PAUSE it leaves activity unchanged and issues no control.
C2_AsStated ==
    /\ (Granted("FOREGROUND") /\ step.pre.activity = "PAUSED" /\ step.pre.halt = "FOCUS_CHANGE_PAUSE")
       => (m_currentActivity = "PLAYING" /\ Len(Controls("RESUME")) = 1)
    /\ (Granted("FOREGROUND") /\ step.pre.halt = "EXTERNAL_PAUSE")
       => (m_currentActivity = step.pre.activity /\ step.calls = <<>>)

\* C2 amended: with a player in focus that has no adapter in the registry and a recorded
\* focus other than FOREGROUND, a processed FOREGROUND grant while PAUSED with
\* HaltInitiator FOCUS_CHANGE_PAUSE leaves activity PLAYING and issues exactly one RESUME
\* control for the player in focus to each registered adapter handler; in every state, the
\* same grant while HaltInitiator is EXTERNAL_PAUSE leaves activity unchanged and issues
\* no control.
C2_ForegroundResumes ==
    /\ (Granted("FOREGROUND") /\ HandlerManaged /\ step.pre.focus # "FOREGROUND"
           /\ step.pre.activity = "PAUSED" /\ step.pre.halt = "FOCUS_CHANGE_PAUSE")
       => (m_currentActivity = "PLAYING" /\ OneControlPerHandler(step.pre.player, "RESUME"))
    /\ (Granted("FOREGROUND") /\ step.pre.halt = "EXTERNAL_PAUSE")
       => (m_currentActivity = step.pre.activity /\ step.calls = <<>>)

C2_Witness ==
    /\ Granted("FOREGROUND") /\ HandlerManaged /\ step.pre.focus = "BACKGROUND"
    /\ step.pre.activity = "PAUSED" /\ step.pre.halt = "FOCUS_CHANGE_PAUSE"
    /\ m_currentActivity = "PLAYING" /\ Len(Controls("RESUME")) = 1

Acquires ==
    SelectSeq(step.calls, LAMBDA c : c.op = "acquireChannel")

\* C4: setPlayerInFocus(id, true) called while an acquisition awaits its focus callback
\* makes no acquireChannel call, and at most one acquireChannel call is made between two
\* processed focus callbacks.
C4_OneAcquireOutstanding ==
    /\ (step.op = "setPlayerInFocus" /\ step.acquire /\ step.pre.acquireInProgress)
       => Acquires = <<>>
    /\ acquireCalls <= 1

C4_Witness ==
    /\ step.op = "setPlayerInFocus" /\ step.acquire /\ step.pre.acquireInProgress
    /\ step.player # step.pre.player /\ step.pre.player # ""
    /\ acquireCalls = 1 /\ Acquires = <<>>

\* C15 as stated: every setPlayerInFocus(id, true) leaves activity IDLE and HaltInitiator
\* NONE and makes exactly one acquireChannel call.
C15_AsStated ==
    (step.op = "setPlayerInFocus" /\ step.acquire)
    => /\ m_currentActivity = "IDLE"
       /\ m_haltInitiator = "NONE"
       /\ Len(Acquires) = 1

\* C15 amended: setPlayerInFocus(id, true) records id as the player in focus; when the
\* recorded focus is NONE and no acquisition is outstanding it leaves activity IDLE and
\* HaltInitiator NONE, marks the acquisition outstanding and makes exactly one
\* acquireChannel call; otherwise it leaves activity, HaltInitiator and the outstanding
\* mark as they were and makes no acquireChannel call.
C15_AcquireOnlyFromNone ==
    (step.op = "setPlayerInFocus" /\ step.acquire)
    => /\ m_playerInFocus = step.player
       /\ m_focus = step.pre.focus
       /\ IF step.pre.focus = "NONE" /\ ~step.pre.acquireInProgress
          THEN /\ m_currentActivity = "IDLE"
               /\ m_haltInitiator = "NONE"
               /\ m_focusAcquireInProgress
               /\ Len(Acquires) = 1
          ELSE /\ m_currentActivity = step.pre.activity
               /\ m_haltInitiator = step.pre.halt
               /\ m_focusAcquireInProgress = step.pre.acquireInProgress
               /\ Acquires = <<>>

C15_Witness ==
    /\ step.op = "setPlayerInFocus" /\ step.acquire
    /\ step.pre.focus = "NONE" /\ ~step.pre.acquireInProgress
    /\ step.pre.activity = "PLAYING" /\ step.pre.halt = "FOCUS_CHANGE_STOP"
    /\ m_currentActivity = "IDLE" /\ m_haltInitiator = "NONE" /\ Len(Acquires) = 1

\* the releaseChannel calls of the last operation
Releases ==
    SelectSeq(step.calls, LAMBDA c : c.op = "releaseChannel")

\* C16: setPlayerInFocus(id, false) makes one releaseChannel call, and no other call, if
\* id is the player in focus and the recorded focus is not NONE; otherwise it makes no
\* call; either way it changes none of focus, activity, HaltInitiator, player in focus
\* and the outstanding-acquisition mark.
C16_ReleaseOnlyOwnFocus ==
    (step.op = "setPlayerInFocus" /\ ~step.acquire)
    => /\ Snapshot = step.pre
       /\ IF step.player = step.pre.player /\ step.pre.focus # "NONE"
          THEN Len(Releases) = 1 /\ Len(step.calls) = 1
          ELSE step.calls = <<>>

C16_Witness ==
    /\ step.op = "setPlayerInFocus" /\ ~step.acquire
    /\ step.player = m_playerInFocus /\ m_focus = "BACKGROUND"
    /\ Len(Releases) = 1

\* C14 as stated: with a player in focus and activity PLAYING, PAUSED or BUFFER_UNDERRUN,
\* a processed NONE grant leaves activity STOPPED and HaltInitiator FOCUS_CHANGE_STOP and
\* issues a STOP control to the player in focus.
C14_AsStated ==
    (Granted("NONE") /\ step.pre.player # ""
        /\ step.pre.activity \in {"PLAYING", "PAUSED", "BUFFER_UNDERRUN"})
    => /\ m_currentActivity = "STOPPED"
       /\ m_haltInitiator = "FOCUS_CHANGE_STOP"
       /\ \E i \in 1..Len(Controls("STOP")) : Controls("STOP")[i].player = step.pre.player

\* C14 amended: with a player in focus that has no adapter in the registry, a recorded
\* focus other than NONE and activity PLAYING, PAUSED or BUFFER_UNDERRUN, a processed NONE
\* grant leaves activity STOPPED and HaltInitiator FOCUS_CHANGE_STOP and issues exactly
\* one STOP control for the player in focus to each registered adapter handler.
C14_NoneStops ==
    (Granted("NONE") /\ HandlerManaged /\ step.pre.focus # "NONE"
        /\ step.pre.activity \in {"PLAYING", "PAUSED", "BUFFER_UNDERRUN"})
    => /\ m_currentActivity = "STOPPED"
       /\ m_haltInitiator = "FOCUS_CHANGE_STOP"
       /\ m_focus = "NONE"
       /\ OneControlPerHandler(step.pre.player, "STOP")

C14_Witness ==
    /\ Granted("NONE") /\ HandlerManaged /\ step.pre.focus = "BACKGROUND"
    /\ step.pre.activity = "PAUSED" /\ step.pre.halt = "EXTERNAL_PAUSE"
    /\ m_currentActivity = "STOPPED" /\ m_haltInitiator = "FOCUS_CHANGE_STOP"
    /\ Len(Controls("STOP")) = 1

\* C19: every operation that writes the activity does so holding the activity mutex and
\* calls notify_all afterwards, and whenever an operation leaves the activity changed it
\* has called notify_all.
C19_ActivityWritesPublished ==
    /\ \A i \in 1..Len(step.sync) :
          step.sync[i] = "write"
          => /\ i > 1 /\ step.sync[i - 1] = "lock"
             /\ \E j \in (i + 1)..Len(step.sync) : step.sync[j] = "notify_all"
    /\ m_currentActivity # step.pre.activity
       => \E j \in 1..Len(step.sync) : step.sync[j] = "notify_all"

\* the operations that run on their caller's thread to handle a directive or a button;
\* the operations named execute... are the tasks of the executor
OnCallerThread ==
    step.op \in {"handleDirective", "onButtonPressed"}

\* C20: a directive handler or a button event touches HaltInitiator and the player in
\* focus only inside a task of the executor: the part of it that runs on the caller's
\* thread leaves both as it found them.
C20_SharedStateOnlyInTasks ==
    OnCallerThread
    => /\ m_haltInitiator = step.pre.halt
       /\ m_playerInFocus = step.pre.player

----------------------------------------------------------------------------
(* Properties of directive handling, checked under SpecDispatch *)

\* the directive the last operation worked on
TheDirective ==
    step.info.directive

\* the last operation was handleDirective, or the executor running the task it submitted
OnDirective ==
    step.op \in {"handleDirective", "executeBroadcast"}

\* nothing more will happen for the directive of the last operation
Finished ==
    \/ step.op = "handleDirective" /\ ~step.submitted
    \/ step.op = "executeBroadcast"

\* the handler the dispatch table names for the directive of the last operation
HandlerName ==
    m_directiveToHandlerMap[TheDirective.key][2]

\* the calls of the last operation on registry adapters and on adapter handlers
Deliveries ==
    SelectSeq(step.calls, LAMBDA c : c.target \in {"adapter", "handler"})

\* the last operation failed the directive with the message and did nothing else
FailedWith(message) ==
    /\ step.info.exceptions = <<message>>
    /\ step.info.signals = <<"setFailed">>
    /\ \A i \in 1..Len(step.calls) : step.calls[i].target = "result" => step.calls[i].msg = message
    /\ Deliveries = <<>>
    /\ ~step.submitted

\* C5: every directive with a result ends with exactly one signal, setCompleted or
\* setFailed, on that result.
C5_ExactlyOneSignal ==
    (Finished /\ TheDirective.hasResult) => Len(step.info.signals) = 1

\* C6: a directive whose (namespace, name) is not in the dispatch table is failed with
\* 'Unhandled directive'; no adapter and no adapter handler is called, no task is
\* submitted, and activity, HaltInitiator, focus and player in focus stay as they were.
C6_UnhandledDirective ==
    (step.op = "handleDirective" /\ TheDirective.key \notin DOMAIN m_directiveToHandlerMap)
    => (FailedWith("Unhandled directive") /\ Snapshot = step.pre)

C6_Witness ==
    /\ step.op = "handleDirective"
    /\ TheDirective.key = <<"Alexa.Speaker", "Play">>
    /\ step.info.signals = <<"setFailed">>
    /\ m_adapterHandlers # {}

\* C7: a directive of Login, Logout, Play, play control, SetSeekPosition or
\* AdjustSeekPosition whose payload has no playerId is failed with the missing-playerId
\* error, and neither a registry adapter nor an adapter handler is called for it.
C7_NoPlayerId ==
    (OnDirective /\ TheDirective.parses /\ ~retrieveValue(TheDirective, "playerId")
        /\ TheDirective.key \in DOMAIN m_directiveToHandlerMap
        /\ HandlerName # "handleAuthorizeDiscoveredPlayers")
    => /\ step.info.exceptions = <<"No PlayerId in directive.">>
       /\ Deliveries = <<>>

\* C8: a Play directive that resolves to a registry adapter and lacks
\* playbackContextToken is failed with the missing-field error, and handlePlay is not
\* called on the adapter.
C8_PlayWithoutToken ==
    (step.op = "handleDirective" /\ TheDirective.key = <<"ExternalMediaPlayer", "Play">>
        /\ TheDirective.parses /\ "playerId" \in TheDirective.fields
        /\ TheDirective.playerId \in m_adapters
        /\ "playbackContextToken" \notin TheDirective.fields)
    => FailedWith("missing playbackContextToken in Play directive")

C8_Witness ==
    /\ step.op = "handleDirective" /\ TheDirective.key = <<"ExternalMediaPlayer", "Play">>
    /\ TheDirective.playerId \in m_adapters
    /\ TheDirective.fields = {"playerId", "skillToken", "playbackSessionId", "navigation", "preload"}
    /\ step.info.signals = <<"setFailed">>

C10_UnrecognizedPlayerId ==
    (OnDirective /\ TheDirective.hasResult
        /\ TheDirective.parses /\ "playerId" \in TheDirective.fields
        /\ m_adapters # {} /\ TheDirective.playerId \notin m_adapters
        /\ TheDirective.key \in DOMAIN m_directiveToHandlerMap
        /\ HandlerName # "handleAuthorizeDiscoveredPlayers")
    => /\ step.info.exceptions = <<"Unrecogonized PlayerId.">>
       /\ "setFailed" \in {step.info.signals[i] : i \in 1..Len(step.info.signals)}
       /\ "setCompleted" \notin {step.info.signals[i] : i \in 1..Len(step.info.signals)}
       /\ \A i \in 1..Len(step.calls) : step.calls[i].target # "adapter"

\* the adapter-handler calls of the last operation
HandlerCalls ==
    SelectSeq(step.calls, LAMBDA c : c.target = "handler")

\* C11: a directive of Login, Logout, Play, play control, SetSeekPosition or
\* AdjustSeekPosition is routed to the adapter-handler broadcast (a task is submitted
\* that calls every registered handler and completes the directive) if and only if its
\* payload parsed, it carries a playerId and the adapter registry is empty.
C11_BroadcastIffEmptyRegistry ==
    (step.op = "handleDirective" /\ TheDirective.key \in DOMAIN m_directiveToHandlerMap
        /\ HandlerName # "handleAuthorizeDiscoveredPlayers")
    => (step.submitted <=> (TheDirective.parses /\ "playerId" \in TheDirective.fields /\ m_adapters = {}))

\* the fields a handler requires of a payload that resolved to a registry adapter
Required(handler) ==
    CASE handler = "handleLogin" -> {"accessToken", "tokenRefreshIntervalInMilliseconds", "forceLogin"}
      [] handler = "handlePlay" -> {"playbackContextToken", "skillToken", "playbackSessionId",
                                    "navigation", "preload"}
      [] handler = "handleSeek" -> {"positionMilliseconds"}
      [] handler = "handleAdjustSeek" -> {"deltaPositionMilliseconds"}
      [] OTHER -> {}

\* the directive of the last operation has a directive-level error: unhandled, malformed,
\* without playerId, for an unrecognized player, lacking a required field, or out of range
InError ==
    LET d == TheDirective IN
    \/ d.key \notin DOMAIN m_directiveToHandlerMap
    \/ ~d.parses
    \/ /\ HandlerName # "handleAuthorizeDiscoveredPlayers"
       /\ \/ "playerId" \notin d.fields
          \/ m_adapters # {} /\ d.playerId \notin m_adapters
          \/ /\ d.playerId \in m_adapters
             /\ \/ ~(Required(HandlerName) \subseteq d.fields)
                \/ HandlerName = "handleAdjustSeek" /\ (d.delta < -86400000 \/ d.delta > 86400000)

\* C12: a directive with a directive-level error gets exactly one exception report and
\* one setFailed on its result, a directive without one gets no exception report, and no
\* directive ever has two exception reports.
C12_OneExceptionReport ==
    /\ step.op = "handleDirective"
       => IF InError
          THEN /\ Len(step.info.exceptions) = 1
               /\ TheDirective.hasResult => step.info.signals = <<"setFailed">>
          ELSE step.info.exceptions = <<>>
    /\ step.op = "executeBroadcast"
       => /\ Len(step.info.exceptions) <= 1
          /\ exceptionsOf(step.calls) = <<>>
          /\ Len(SelectSeq(step.info.signals, LAMBDA x : x = "setFailed")) <= 1

C12_Witness ==
    /\ step.op = "executeBroadcast"
    /\ ~TheDirective.parses
    /\ step.info.exceptions = <<"Unable to parse payload">>
    /\ "setFailed" \in {step.info.signals[i] : i \in 1..Len(step.info.signals)}

----------------------------------------------------------------------------
(* Properties of the adapter-handler set, checked under SpecHandlers *)

\* C13: the executor takes the tasks of addAdapterHandler and removeAdapterHandler from
\* the head of the queue, in the order they were submitted; adding a registered handler
\* and removing an unregistered one leave the handler set as it was, adding an
\* unregistered one adds exactly it, removing a registered one removes exactly it, and
\* nothing but a task changes the set.
C13_HandlerSet ==
    [][IF Len(executorQueue') < Len(executorQueue)
       THEN LET t == Head(executorQueue) IN
            /\ executorQueue' = Tail(executorQueue)
            /\ (t.kind = "addAdapterHandler" /\ t.handler \in m_adapterHandlers)
               => /\ m_adapterHandlers' = m_adapterHandlers
                  /\ Cardinality(m_adapterHandlers') = Cardinality(m_adapterHandlers)
            /\ (t.kind = "addAdapterHandler" /\ t.handler \notin m_adapterHandlers)
               => m_adapterHandlers' = m_adapterHandlers \cup {t.handler}
            /\ (t.kind = "removeAdapterHandler" /\ t.handler \notin m_adapterHandlers)
               => m_adapterHandlers' = m_adapterHandlers
            /\ (t.kind = "removeAdapterHandler" /\ t.handler \in m_adapterHandlers)
               => m_adapterHandlers' = m_adapterHandlers \ {t.handler}
       ELSE /\ m_adapterHandlers' = m_adapterHandlers
            /\ SubSeq(executorQueue', 1, Len(executorQueue)) = executorQueue
    ]_vars

\* the same handler was added twice: the second task found it and the set has one element
C13_Witness ==
    /\ step.op = "executeAddAdapterHandler"
    /\ step.calls[1].msg = "Duplicate adapter handler."
    /\ Cardinality(m_adapterHandlers) = 1
    /\ executorQueue # <<>> /\ Head(executorQueue).kind = "removeAdapterHandler"
    /\ Head(executorQueue).handler \notin m_adapterHandlers

----------------------------------------------------------------------------
(* Properties of a session, checked under SpecSession *)

\* C17: once the channel has been released (releaseChannel was called, and the NONE
\* grant that answers it has been processed) the player in focus is empty, and a button
\* pressed then reaches no adapter and no adapter handler.
C17_ReleaseClearsPlayer ==
    channel = "released"
    => /\ m_playerInFocus = ""
       /\ step.op = "onButtonPressed" => (step.calls = <<>> /\ ~step.submitted)

\* the last operation issued a PLAY or RESUME request: a directive of the dispatch table
\* or a button pressed with a player in focus
IssuedPlayOrResume ==
    /\ step.request \in {"PLAY", "RESUME"}
    /\ \/ step.op = "handleDirective"
       \/ step.op = "onButtonPressed" /\ step.pre.player # ""

\* C18 as stated: every PLAY or RESUME request leaves HaltInitiator NONE, and no other
\* operation changes HaltInitiator to NONE.
C18_AsStated ==
    /\ IssuedPlayOrResume => m_haltInitiator = "NONE"
    /\ (m_haltInitiator = "NONE" /\ step.pre.halt # "NONE") => IssuedPlayOrResume

\* C18 amended: a PLAY or RESUME request that goes to the adapter handlers (a directive
\* for which no registry adapter was resolved, a button pressed while the player in
\* focus has no registry adapter) leaves HaltInitiator NONE; one that goes to a registry
\* adapter leaves HaltInitiator as it was; and HaltInitiator changes to NONE only on such
\* a request to the adapter handlers or when setPlayerInFocus acquires the channel.
C18_HaltInitiatorReset ==
    /\ IssuedPlayOrResume
       => m_haltInitiator = IF step.submitted THEN "NONE" ELSE step.pre.halt
    /\ (m_haltInitiator = "NONE" /\ step.pre.halt # "NONE")
       => \/ IssuedPlayOrResume /\ step.submitted
          \/ /\ step.op = "setPlayerInFocus" /\ step.acquire
             /\ step.pre.focus = "NONE" /\ ~step.pre.acquireInProgress

C18_Witness ==
    /\ step.op = "onButtonPressed" /\ step.request = "RESUME" /\ step.submitted
    /\ step.pre.halt = "FOCUS_CHANGE_PAUSE" /\ step.pre.activity = "PAUSED"
    /\ m_haltInitiator = "NONE"


----------------------------------------------------------------------------
(* Claims about the observer registry, checked under SpecObservers *)

\* thread t is inside a call into the registry
InRegistry(t) == observerThreads[t] # <<>>

\* thread t can take its next step
CanStep(t) == ENABLED (registryStep(t) /\ UNCHANGED <<inside, instance>>)

\* C21: notifyObservers never holds the observer mutex while an observer
\* callback runs, so a callback that calls addObserver or removeObserver is
\* never blocked by its own thread, and no deadlock is reachable: every thread
\* inside the registry can step, or waits for a lock whose holder is another
\* thread that can step.
C21_NotifyWithoutLock ==
    /\ \A t \in Threads : inCallback(t) /\ top(t).pc # "locked" => m_observersMutex # t
    /\ \A t \in Threads :
          InRegistry(t) =>
              \/ CanStep(t)
              \/ /\ top(t).pc = "lock"
                 /\ m_observersMutex \in Threads \ {t}
                 /\ CanStep(m_observersMutex)

\* an observer's callback has called addObserver and holds the registry's lock
C21_Witness ==
    \E t \in Threads :
        /\ inCallback(t)
        /\ top(t).fn = "addObserver"
        /\ top(t).pc = "locked"
        /\ m_observersMutex = t


----------------------------------------------------------------------------
(* Claims about shutdown, checked under SpecShutdown *)

\* the steps the executor takes
Executes == {"executeOnFocusChanged", "executeButton", "executeBroadcast",
             "executeAddAdapterHandler", "executeRemoveAdapterHandler"}

\* the positions in calls of the calls to target.op
At(calls, target, op) == {i \in 1..Len(calls) : calls[i].target = target /\ calls[i].op = op}

\* the calls that give up the registry and the collaborators
Releases22(calls) ==
    At(calls, "m_adapters", "clear") \cup At(calls, "m_exceptionEncounteredSender", "reset")
        \cup At(calls, "m_contextManager", "reset") \cup At(calls, "m_playbackRouter", "reset")
        \cup At(calls, "m_speakerManager", "reset")

\* C22: doShutdown first stops the queue, then empties the adapter-handler set,
\* then clears both state-provider registrations and detaches the focus
\* manager, then shuts down every adapter of the registry, and only then
\* releases the registry and the collaborators; and once the agent is shut
\* down the queue holds no task and the executor runs none.
C22_ShutdownOrder ==
    [][ /\ instance' = "shutdown" =>
              /\ executorQueue' = <<>>
              /\ step'.op \notin Executes
        /\ instance = "live" /\ instance' = "shutdown" =>
              LET calls == step'.calls
                  detach == At(calls, "m_focusManager", "reset")
                                \cup At(calls, "m_contextManager", "setStateProvider")
                  down == At(calls, "adapter", "shutdown")
              IN  /\ step'.op = "doShutdown"
                  /\ At(calls, "m_executor", "shutdown") = {1}
                  /\ At(calls, "m_adapterHandlers", "clear") = {2}
                  /\ detach = {3, 4, 5}
                  /\ {calls[i].msg : i \in At(calls, "m_contextManager", "setStateProvider")}
                        = {"SESSION_STATE", "PLAYBACK_STATE"}
                  /\ {calls[i].player : i \in down} = m_adapters
                  /\ Cardinality(down) = Cardinality(m_adapters)
                  /\ \A i \in down : i > 5
                  /\ Cardinality(Releases22(calls)) = 5
                  /\ \A i \in Releases22(calls) : \A j \in 1..Len(calls) :
                        j \notin Releases22(calls) => j < i
                  /\ m_adapterHandlers' = {} /\ m_adapters' = {}
      ]_vars

\* after the shutdown a focus change arrived, whose task the executor refused
C22_Witness ==
    /\ instance = "shutdown"
    /\ step.op = "onFocusChanged"
    /\ step.submitted
    /\ executorQueue = <<>>


----------------------------------------------------------------------------
(* Claims about construction, checked under SpecCreate *)

\* C23: when one of the six required collaborators is absent, create returns
\* no instance and has done nothing: no state provider was registered and no
\* adapter factory was called.
C23_CreateAllOrNothing ==
    step.op = "create" /\ step.args.given # Collaborators =>
        /\ instance = "none"
        /\ step.calls = <<>>
        /\ m_adapters = {}

\* create was called without the playback router, with a creation map from
\* which an adapter could have been built
C23_Witness ==
    /\ step.op = "create"
    /\ step.args.given = Collaborators \ {"playbackRouter"}
    /\ step.args.creation["p1"] = "adapter"
    /\ instance = "none"


----------------------------------------------------------------------------
(* Claims about state reports, checked under SpecReport *)

\* the step is a state report for the session or the playback snapshot
Reported == step.op = "executeProvideState" /\ step.request \in {SESSION_STATE, PLAYBACK_STATE}

\* the blocks of the snapshot that was set
Players == {step.state.players[i] : i \in 1..Len(step.state.players)}

\* C24: in the session snapshot and in the playback snapshot alike, a handler's
\* state is appended only when its player id is not empty.
C24_HandlerStatesNonEmpty ==
    Reported => \A b \in Players : b.source = "handler" => b.playerId # ""

\* observer o was told of player p by the report
Told(o, p) ==
    \E i \in 1..Len(step.calls) :
        /\ step.calls[i].target = "observer"
        /\ step.calls[i].handler = o
        /\ step.calls[i].player = p
        /\ step.calls[i].op = IF step.request = SESSION_STATE THEN "onLoginStateProvided"
                              ELSE "onPlaybackStateProvided"

\* C25: every state report, session or playback, from the registry or from
\* the handlers, tells every registered observer of each player whose state
\* it includes.
C25_ReportNotifiesObservers ==
    Reported => \A b \in Players : b.playerId # "" => \A o \in step.observers : Told(o, b.playerId)


----------------------------------------------------------------------------
(* Further claims about focus arbitration, checked under Spec *)

\* C26 as stated: with a player in focus, a processed BACKGROUND grant leaves
\* activity PAUSED whatever the activity was, issues a PAUSE control, and leaves
\* HaltInitiator FOCUS_CHANGE_PAUSE unless it was EXTERNAL_PAUSE.
C26_AsStated ==
    (Granted("BACKGROUND") /\ step.pre.player # "")
    => /\ m_currentActivity = "PAUSED"
       /\ Controls("PAUSE") # <<>>
       /\ m_haltInitiator = IF step.pre.halt = "EXTERNAL_PAUSE" THEN "EXTERNAL_PAUSE"
                            ELSE "FOCUS_CHANGE_PAUSE"

\* C26 amended: with a player in focus that has no adapter in the registry and
\* a recorded focus other than BACKGROUND, a processed BACKGROUND grant leaves
\* activity PAUSED whatever the activity was, issues one PAUSE control for the
\* player in focus to each registered adapter handler, and leaves HaltInitiator
\* FOCUS_CHANGE_PAUSE unless it was EXTERNAL_PAUSE, which stays.
C26_BackgroundPausesAnyActivity ==
    (Granted("BACKGROUND") /\ HandlerManaged /\ step.pre.focus # "BACKGROUND")
    => /\ m_currentActivity = "PAUSED"
       /\ OneControlPerHandler(step.pre.player, "PAUSE")
       /\ m_haltInitiator = IF step.pre.halt = "EXTERNAL_PAUSE" THEN "EXTERNAL_PAUSE"
                            ELSE "FOCUS_CHANGE_PAUSE"

C26_Witness ==
    /\ Granted("BACKGROUND") /\ HandlerManaged /\ step.pre.focus = "FOREGROUND"
    /\ step.pre.activity = "FINISHED" /\ step.pre.halt = "EXTERNAL_PAUSE"
    /\ m_currentActivity = "PAUSED" /\ m_haltInitiator = "EXTERNAL_PAUSE"
    /\ Len(Controls("PAUSE")) = 1

\* C29 as stated: a processed FOREGROUND grant while PAUSED with HaltInitiator
\* NONE leaves activity PLAYING and issues no RESUME; a FOREGROUND grant issues
\* RESUME only when HaltInitiator was FOCUS_CHANGE_PAUSE or FOCUS_CHANGE_STOP.
C29_AsStated ==
    /\ (Granted("FOREGROUND") /\ step.pre.activity = "PAUSED" /\ step.pre.halt = "NONE")
       => (m_currentActivity = "PLAYING" /\ Controls("RESUME") = <<>>)
    /\ (Granted("FOREGROUND") /\ Controls("RESUME") # <<>>)
       => step.pre.halt \in {"FOCUS_CHANGE_PAUSE", "FOCUS_CHANGE_STOP"}

\* C29 amended: with a player in focus that has no adapter in the registry and
\* a recorded focus other than FOREGROUND, a processed FOREGROUND grant while
\* PAUSED with HaltInitiator NONE leaves activity PLAYING and HaltInitiator NONE
\* and makes no call; and whenever a FOREGROUND grant issues RESUME, the
\* activity was PAUSED and HaltInitiator was FOCUS_CHANGE_PAUSE or
\* FOCUS_CHANGE_STOP.
C29_ForegroundWithoutResume ==
    /\ (Granted("FOREGROUND") /\ HandlerManaged /\ step.pre.focus # "FOREGROUND"
            /\ step.pre.activity = "PAUSED" /\ step.pre.halt = "NONE")
       => (m_currentActivity = "PLAYING" /\ m_haltInitiator = "NONE" /\ step.calls = <<>>)
    /\ (Granted("FOREGROUND") /\ Controls("RESUME") # <<>>)
       => /\ step.pre.activity = "PAUSED"
          /\ step.pre.halt \in {"FOCUS_CHANGE_PAUSE", "FOCUS_CHANGE_STOP"}

C29_Witness ==
    /\ Granted("FOREGROUND") /\ HandlerManaged /\ step.pre.focus = "NONE"
    /\ step.pre.activity = "PAUSED" /\ step.pre.halt = "NONE"
    /\ m_adapterHandlers # {}
    /\ m_currentActivity = "PLAYING" /\ step.calls = <<>>

\* the last operation processed a grant the arbitration has nothing to do for
NoOpGrant ==
    \/ Granted("FOREGROUND")
          /\ step.pre.activity \in {"IDLE", "STOPPED", "FINISHED", "PLAYING", "BUFFER_UNDERRUN"}
    \/ Granted("NONE") /\ step.pre.activity \in {"IDLE", "STOPPED", "FINISHED"}

\* C30 as stated: a FOREGROUND grant while IDLE, STOPPED, FINISHED, PLAYING or
\* BUFFER_UNDERRUN, and a NONE grant while IDLE, STOPPED or FINISHED, leave
\* activity and HaltInitiator unchanged and issue no control: of the
\* arbitration state only the recorded focus changes.
C30_AsStated ==
    NoOpGrant
    => /\ m_currentActivity = step.pre.activity
       /\ m_haltInitiator = step.pre.halt
       /\ step.calls = <<>>
       /\ m_playerInFocus = step.pre.player
       /\ m_focusAcquireInProgress = step.pre.acquireInProgress

\* C30 amended: such a grant leaves activity, HaltInitiator and the player in
\* focus unchanged and makes no call; it records the granted focus and clears
\* the acquisition-outstanding flag.
C30_NoOpGrants ==
    NoOpGrant
    => /\ m_currentActivity = step.pre.activity
       /\ m_haltInitiator = step.pre.halt
       /\ step.calls = <<>>
       /\ m_playerInFocus = step.pre.player
       /\ m_focus = step.newFocus
       /\ m_focusAcquireInProgress = FALSE

C30_Witness ==
    /\ Granted("NONE") /\ HandlerManaged /\ step.pre.focus = "FOREGROUND"
    /\ step.pre.activity = "FINISHED" /\ step.pre.halt = "FOCUS_CHANGE_PAUSE"
    /\ m_adapterHandlers # {}
    /\ m_focus = "NONE" /\ m_currentActivity = "FINISHED"

----------------------------------------------------------------------------
(* Claims about the halt initiator of local requests *)

\* the last operation issued a request of one of the kinds: a directive of the
\* dispatch table, or a button pressed with a player in focus
Issued(kinds) ==
    /\ step.request \in kinds
    /\ \/ step.op = "handleDirective"
       \/ step.op = "onButtonPressed" /\ step.pre.player # ""

\* the request of the last operation went to a registry adapter
ToAdapter ==
    \E i \in 1..Len(step.calls) :
        step.calls[i].target = "adapter" /\ step.calls[i].request = step.request

\* the request of the last operation waits in the queue for the adapter handlers
ToHandlers ==
    /\ step.submitted
    /\ executorQueue # <<>>
    /\ executorQueue[Len(executorQueue)].request = step.request
    /\ \A i \in 1..Len(step.calls) : step.calls[i].target # "handler"

\* C27 as stated (checked under SpecSession): a PAUSE request from a directive
\* or a button leaves HaltInitiator EXTERNAL_PAUSE and a PLAY or RESUME request
\* leaves it NONE, whether the request goes to a registry adapter or to the
\* adapter handlers.
C27_AsStated ==
    /\ (Issued({"PAUSE"}) /\ (ToAdapter \/ step.submitted)) => m_haltInitiator = "EXTERNAL_PAUSE"
    /\ (Issued({"PLAY", "RESUME"}) /\ (ToAdapter \/ step.submitted)) => m_haltInitiator = "NONE"

\* C27 amended (checked under SpecSession): a PAUSE request that goes to the
\* adapter handlers leaves HaltInitiator EXTERNAL_PAUSE and a PLAY or RESUME
\* request that goes to them leaves it NONE, in both cases in the operation that
\* queues the request, before any handler is called; a request that goes to a
\* registry adapter leaves HaltInitiator as it was.
C27_HaltInitiatorBeforeHandlers ==
    /\ (Issued({"PAUSE"}) /\ step.submitted) => (m_haltInitiator = "EXTERNAL_PAUSE" /\ ToHandlers)
    /\ (Issued({"PLAY", "RESUME"}) /\ step.submitted) => (m_haltInitiator = "NONE" /\ ToHandlers)
    /\ (Issued({"PAUSE", "PLAY", "RESUME"}) /\ ToAdapter)
       => (m_haltInitiator = step.pre.halt /\ ~step.submitted)

C27_Witness ==
    /\ step.op = "handleDirective" /\ step.request = "PAUSE" /\ step.submitted
    /\ step.pre.halt = "FOCUS_CHANGE_PAUSE"
    /\ m_haltInitiator = "EXTERNAL_PAUSE"
    /\ ToHandlers

\* C28 (checked under SpecHelper): for PAUSE_RESUME_TOGGLE the helper sets
\* HaltInitiator to EXTERNAL_PAUSE when the activity is PLAYING, or PAUSED with
\* HaltInitiator FOCUS_CHANGE_PAUSE, and leaves it unchanged otherwise; a request
\* other than PAUSE, PAUSE_RESUME_TOGGLE, PLAY and RESUME never changes it.
C28_ToggleAndOtherRequests ==
    step.op = "setHaltInitiatorRequestHelper"
    => /\ step.request = "PAUSE_RESUME_TOGGLE"
          => m_haltInitiator =
                IF \/ step.pre.activity = "PLAYING"
                   \/ step.pre.activity = "PAUSED" /\ step.pre.halt = "FOCUS_CHANGE_PAUSE"
                THEN "EXTERNAL_PAUSE"
                ELSE step.pre.halt
       /\ step.request \notin {"PAUSE", "PAUSE_RESUME_TOGGLE", "PLAY", "RESUME"}
          => m_haltInitiator = step.pre.halt

C28_Witness ==
    /\ step.op = "setHaltInitiatorRequestHelper" /\ step.request = "PAUSE_RESUME_TOGGLE"
    /\ step.pre.activity = "PAUSED" /\ step.pre.halt = "FOCUS_CHANGE_STOP"
    /\ m_haltInitiator = "FOCUS_CHANGE_STOP"

\* ---------------------------------------------------------------------------
\* The wait of onFocusChanged and the grants it queues (SpecGrants)
\* ---------------------------------------------------------------------------

C32_ForegroundNeverWaits ==
    /\ focusThread # "FOREGROUND"
    /\ (step.op = "onFocusChanged" /\ step.newFocus = "FOREGROUND")
       => /\ focusThread = "idle"
          /\ step.submitted
          /\ Snapshot = step.pre
          /\ executorQueue # <<>>
          /\ executorQueue[Len(executorQueue)].kind = "executeOnFocusChanged"
          /\ executorQueue[Len(executorQueue)].newFocus = "FOREGROUND"

C32_Witness ==
    /\ step.op = "onFocusChanged" /\ step.newFocus = "FOREGROUND"
    /\ m_currentActivity = "BUFFER_UNDERRUN"
    /\ focusThread = "idle"
    /\ executorQueue # <<>>

\* C33: a wait that times out neither cancels nor re-submits the queued transition: the
\* timeout leaves the queue and the arbitration state as they were, and the transition
\* runs once, when the queue reaches it, with the result executeOnFocusChanged computes
\* from the state it finds.
C33_TimeoutKeepsTransition ==
    [][/\ step'.op = "onFocusChangedTimedOut"
          => /\ executorQueue' = executorQueue
             /\ Snapshot' = Snapshot
       /\ step'.op = "executeOnFocusChanged"
          => /\ executorQueue # <<>>
             /\ Head(executorQueue).kind = "executeOnFocusChanged"
             /\ Head(executorQueue).newFocus = step'.newFocus
             /\ executorQueue' = Tail(executorQueue)
             /\ \E ord \in Orders(m_adapterHandlers) :
                   LET r == executeOnFocusChanged(step'.newFocus, ord)
                   IN /\ m_focus' = r.focus
                      /\ m_currentActivity' = r.activity
                      /\ m_haltInitiator' = r.halt
                      /\ step'.calls = r.calls]_vars

C33_Witness ==
    /\ step.op = "onFocusChangedTimedOut" /\ step.newFocus = "NONE"
    /\ executorQueue # <<>>
    /\ Head(executorQueue).kind = "executeOnFocusChanged"
    /\ Head(executorQueue).newFocus = "NONE"

\* C36: when the player in focus is empty or names an adapter of the registry, a
\* processed grant updates only the recorded focus and the acquire-in-progress flag:
\* activity, halt initiator and player in focus stay, and no control is issued,
\* whatever the grant and the activity.
C36_RegistryPlayerGrant ==
    (step.op = "executeOnFocusChanged" /\ (step.pre.player = "" \/ step.pre.player \in m_adapters))
    => /\ m_focus = step.newFocus
       /\ m_focusAcquireInProgress = FALSE
       /\ m_currentActivity = step.pre.activity
       /\ m_haltInitiator = step.pre.halt
       /\ m_playerInFocus = step.pre.player
       /\ step.calls = <<>>

C36_Witness ==
    /\ Granted("BACKGROUND")
    /\ step.pre.player \in m_adapters
    /\ step.pre.focus = "FOREGROUND"
    /\ step.pre.activity = "PLAYING"
    /\ m_focus = "BACKGROUND"

\* C37: a grant equal to the recorded focus is a no-op: it clears the
\* acquire-in-progress flag and changes neither activity, halt initiator nor focus, and
\* issues no control, also when the activity is PLAYING and the grant is BACKGROUND or
\* NONE.
C37_SameFocusGrant ==
    (step.op = "executeOnFocusChanged" /\ step.newFocus = step.pre.focus)
    => /\ m_focusAcquireInProgress = FALSE
       /\ m_focus = step.pre.focus
       /\ m_currentActivity = step.pre.activity
       /\ m_haltInitiator = step.pre.halt
       /\ step.calls = <<>>

C37_Witness ==
    /\ Granted("BACKGROUND")
    /\ HandlerManaged
    /\ m_adapterHandlers # {}
    /\ step.pre.focus = "BACKGROUND"
    /\ step.pre.activity = "PLAYING"
    /\ m_currentActivity = "PLAYING"

\* C38: while the halt initiator is EXTERNAL_PAUSE, a FOREGROUND or BACKGROUND grant
\* keeps it EXTERNAL_PAUSE, issues no RESUME and does not make the activity PLAYING;
\* the halt initiator leaves EXTERNAL_PAUSE only by a PLAY or RESUME request, by an
\* acquire that resets it, or by a NONE grant that stops playback.
C38_ExternalPauseSticks ==
    /\ ((Granted("FOREGROUND") \/ Granted("BACKGROUND")) /\ step.pre.halt = "EXTERNAL_PAUSE")
       => /\ m_haltInitiator = "EXTERNAL_PAUSE"
          /\ Controls("RESUME") = <<>>
          /\ m_currentActivity = "PLAYING" => step.pre.activity = "PLAYING"
    /\ (step.pre.halt = "EXTERNAL_PAUSE" /\ m_haltInitiator # "EXTERNAL_PAUSE")
       => \/ step.op = "onButtonPressed" /\ step.request \in {"PLAY", "RESUME"}
          \/ step.op = "setPlayerInFocus" /\ step.acquire /\ m_haltInitiator = "NONE"
          \/ Granted("NONE") /\ m_haltInitiator = "FOCUS_CHANGE_STOP" /\ m_currentActivity = "STOPPED"

C38_Witness ==
    /\ Granted("FOREGROUND")
    /\ HandlerManaged
    /\ lastGrant.newFocus = "BACKGROUND"
    /\ lastGrant.pre.halt = "EXTERNAL_PAUSE"
    /\ step.pre.halt = "EXTERNAL_PAUSE"
    /\ step.pre.activity = "PAUSED"
    /\ m_currentActivity = "PAUSED"

\* C39: from focus FOREGROUND, activity PLAYING and halt initiator NONE with a
\* handler-managed player in focus, a BACKGROUND grant followed by a FOREGROUND grant
\* brings the activity back to PLAYING; each handler got PAUSE in the first grant and
\* RESUME in the second, and the halt initiator is FOCUS_CHANGE_PAUSE afterwards.
PausedByGrant ==
    /\ lastGrant.newFocus = "BACKGROUND"
    /\ lastGrant.pre.focus = "FOREGROUND"
    /\ lastGrant.pre.activity = "PLAYING"
    /\ lastGrant.pre.halt = "NONE"
    /\ lastGrant.pre.player # "" /\ lastGrant.pre.player \notin m_adapters

C34_OnFocusChangedTerminates ==
    (focusThread # "idle") ~> (focusThread = "idle")

C34_Witness ==
    /\ instance = "shutdown"
    /\ step.op = "onFocusChangedTimedOut"
    /\ executorQueue = <<>>
    /\ m_currentActivity \in {"PLAYING", "PAUSED", "BUFFER_UNDERRUN"}
    /\ focusThread = "idle"

\* ---------------------------------------------------------------------------
\* Completion of a directive and the operation it starts (SpecDispatch)
\* ---------------------------------------------------------------------------

\* C35: a directive that resolves to a registry adapter and passes its field checks is
\* marked completed before the adapter operation is invoked; on the broadcast path it
\* is marked completed only after every registered handler has been invoked.
CompletedAt(calls) ==
    {i \in 1..Len(calls) : calls[i].target = "result" /\ calls[i].op = "setCompleted"}

C35_CompletionOrder ==
    /\ (step.op = "handleDirective" /\ \E i \in 1..Len(step.calls) : step.calls[i].target = "adapter")
       => /\ Len(SelectSeq(step.calls, LAMBDA c : c.target = "adapter")) = 1
          /\ step.calls[Len(step.calls)].target = "adapter"
          /\ TheDirective.hasResult
             => /\ CompletedAt(step.calls) = {1}
                /\ Len(step.calls) = 2
          /\ ~step.submitted
    /\ step.op = "executeBroadcast"
       => /\ \A h \in m_adapterHandlers :
                \E i \in 1..Len(step.calls) :
                   /\ step.calls[i].target = "handler" /\ step.calls[i].handler = h
                   /\ \A j \in CompletedAt(step.calls) : i < j
          /\ TheDirective.hasResult
             => CompletedAt(step.calls) = {Len(step.calls)}

C35_Witness ==
    /\ step.op = "handleDirective"
    /\ TheDirective.key = <<"Alexa.SeekController", "SetSeekPosition">>
    /\ TheDirective.hasResult
    /\ Len(step.calls) = 2
    /\ step.calls[1].op = "setCompleted"
    /\ step.calls[2] = AdapterCall(TheDirective.playerId, "handleSeek", "", 0)

\* ---------------------------------------------------------------------------
\* A notification pass and the registry (SpecObservers)
\* ---------------------------------------------------------------------------

\* the executor is in a notification pass: notifyObservers is the outermost call on it
InPass ==
    /\ observerThreads["executor"] # <<>>
    /\ observerThreads["executor"][1].fn = "notifyObservers"

\* the frame of the pass
ThePass ==
    observerThreads["executor"][1]

\* C40: a notification pass calls exactly the observers that were registered when it
\* copied the set: the copy is the registry of that moment, every callback is for an
\* observer still to be visited in the copy, no call into the registry during the pass
\* changes the copy, and the pass ends only when the copy is used up; so an observer
\* added during the pass is not called in it and one removed during it is still
\* called. A notification with an empty player id starts no pass.
C40_PassCallsTheCopy ==
    [][/\ ~ENABLED (notifyObserversCall("executor", "") /\ observerThreads' # observerThreads)
       /\ (~InPass /\ InPass') => (ThePass'.pc = "lock" /\ ThePass'.observers = {})
       /\ (InPass /\ InPass')
          => /\ ThePass.pc \in {"lock", "locked"} /\ ThePass'.pc \in {"lock", "locked"}
                => ThePass'.observers = {}
             /\ (ThePass.pc = "locked" /\ ThePass'.pc = "iterate")
                => ThePass'.observers = m_observers
             /\ (ThePass.pc = "iterate" /\ ThePass'.pc = "callback")
                => /\ ThePass'.observer \in ThePass.observers
                   /\ ThePass'.observers = ThePass.observers \ {ThePass'.observer}
             /\ (ThePass.pc = "iterate" /\ ThePass'.pc = "iterate")
                => ThePass'.observers = ThePass.observers
             /\ ThePass.pc = "callback"
                => /\ ThePass'.observers = ThePass.observers
                   /\ ThePass'.pc = "callback" => ThePass'.observer = ThePass.observer
       /\ (InPass /\ ~InPass') => (ThePass.pc = "iterate" /\ ThePass.observers = {})]_vars

\* the callback of an observer runs that was removed from the registry after the copy,
\* while an observer added after the copy is registered and not in the pass
C40_Witness ==
    /\ InPass
    /\ ThePass.pc = "callback"
    /\ ThePass.observer \notin m_observers
    /\ m_observers # {}
    /\ ThePass.observers = {}

====
